---------------------------- MODULE Spec2Model ----------------------------
(***************************************************************************)
(* Grid Online: the game engine (grid_server/src/model.rs, with the board  *)
(* rules of grid_common/src/lib.rs) and the session coordinator and        *)
(* connection handlers (grid_server/src/main.rs).                          *)
(*                                                                         *)
(* A Card(suit, value) is the number 13 * suit + (value - 1), in the order *)
(* GameState::new pushes the cards; the Board is the function from the     *)
(* cells that hold Some(card) to that card (a cell outside its domain is   *)
(* None); a cell is <<row, col>>, 0-based as in the source.                *)
(***************************************************************************)
EXTENDS Integers, Sequences, FiniteSets, TLC

\* ------------------------------------------------------------ bounds
\* Number of perfect riffles of the sorted deck that stand for deck.shuffle.
MaxRiffles == 1
\* Accepted moves explored in one game.
MaxMoves == 64
\* Connections the server accepts, each with its handle_websocket task.
MaxConns == 3
\* Faults of the peers of one run: a peer that goes away once its login was
\* received, a frame in the gameplay loop that gets its connection dropped.
MaxFaults == 1

\* --------------------------------------------------- program constants
BOARD_SIZE == 11
HAND_SIZE == 5
DECK_SIZE == 52
NUM_VALUES == 13

\* ------------------------------------------------------------- cards
Suit(card) == card \div NUM_VALUES
Value(card) == (card % NUM_VALUES) + 1

\* The full deck in the order GameState::new builds it.
FullDeck == [i \in 1..DECK_SIZE |-> i - 1]

SeqToSet(s) == {s[i] : i \in DOMAIN s}
\* s[from..to) with 0-based bounds, as a Rust slice.
Slice(s, from, to) == [i \in 1..(to - from) |-> s[from + i]]
Min(a, b) == IF a < b THEN a ELSE b
Reverse(s) == [i \in 1..Len(s) |-> s[Len(s) + 1 - i]]

\* One perfect riffle: the two halves interleaved.
Riffle(d) ==
    LET h == Len(d) \div 2
    IN  [i \in 1..Len(d) |-> IF i % 2 = 1 THEN d[(i + 1) \div 2] ELSE d[h + i \div 2]]

RECURSIVE Riffles(_, _)
Riffles(d, k) == IF k = 0 THEN d ELSE Riffles(Riffle(d), k - 1)

\* The outcomes of deck.shuffle the model draws from.
DeckShuffles == {Riffles(FullDeck, k) : k \in 0..MaxRiffles}

\* ------------------------------------------------------------- board
Cells == (0..(BOARD_SIZE - 1)) \X (0..(BOARD_SIZE - 1))
EmptyBoard == << >>

is_some(board, row, col) == <<row, col>> \in DOMAIN board

\* is_board_empty of can_play_at: every cell of the board is None.
is_board_empty(board) == DOMAIN board = {}

\* can_play_at as it would be with the first card allowed on any cell of the
\* board.
can_play_at_first_anywhere(board, row, col) ==
    IF row >= BOARD_SIZE \/ col >= BOARD_SIZE THEN FALSE
    ELSE IF is_some(board, row, col) THEN FALSE
    ELSE IF is_board_empty(board) THEN TRUE
    ELSE \E dr \in -1..1 : \E dc \in -1..1 :
            /\ ~(dr = 0 /\ dc = 0)
            /\ row + dr >= 0 /\ row + dr < BOARD_SIZE
            /\ col + dc >= 0 /\ col + dc < BOARD_SIZE
            /\ is_some(board, row + dr, col + dc)

\* can_play_at as it would be with the four orthogonal neighbours only.
can_play_at_orthogonal(board, row, col) ==
    IF row >= BOARD_SIZE \/ col >= BOARD_SIZE THEN FALSE
    ELSE IF is_some(board, row, col) THEN FALSE
    ELSE IF is_board_empty(board)
         THEN row = BOARD_SIZE \div 2 /\ col = BOARD_SIZE \div 2
    ELSE \E dr \in -1..1 : \E dc \in -1..1 :
            /\ (dr = 0) # (dc = 0)
            /\ row + dr >= 0 /\ row + dr < BOARD_SIZE
            /\ col + dc >= 0 /\ col + dc < BOARD_SIZE
            /\ is_some(board, row + dr, col + dc)

\* Board::can_play_at
can_play_at(board, row, col) ==
    IF row >= BOARD_SIZE \/ col >= BOARD_SIZE THEN FALSE
    ELSE IF is_some(board, row, col) THEN FALSE
    ELSE IF is_board_empty(board)
         THEN row = BOARD_SIZE \div 2 /\ col = BOARD_SIZE \div 2
    ELSE \E dr \in -1..1 : \E dc \in -1..1 :
            /\ ~(dr = 0 /\ dc = 0)
            /\ row + dr >= 0 /\ row + dr < BOARD_SIZE
            /\ col + dc >= 0 /\ col + dc < BOARD_SIZE
            /\ is_some(board, row + dr, col + dc)

\* The 8 directions in the order find_taking_cards tries them.
directions == << <<-1, 0>>, <<1, 0>>, <<0, -1>>, <<0, 1>>,
                 <<-1, -1>>, <<-1, 1>>, <<1, -1>>, <<1, 1>> >>

in_board(row, col) == row >= 0 /\ row < BOARD_SIZE /\ col >= 0 /\ col < BOARD_SIZE

\* The predicates as they would be with the ranks of the second compared the
\* other way round.
predicate_higher(taking_variant, card, target_card) ==
    IF taking_variant = "SameNumber"
    THEN Value(target_card) = Value(card)
    ELSE \/ Value(target_card) = Value(card)
         \/ (Suit(target_card) = Suit(card) /\ Value(target_card) > Value(card))

\* The capture predicates of apply_move: does target_card match the played card.
predicate(taking_variant, card, target_card) ==
    IF taking_variant = "SameNumber"
    THEN Value(target_card) = Value(card)
    ELSE \/ Value(target_card) = Value(card)
         \/ (Suit(target_card) = Suit(card) /\ Value(target_card) < Value(card))

\* The first loop of one direction as it would be if it stopped at the first
\* matching cell.
ray_found_nearest(board, card_row, card_col, d, taking_variant, card) ==
    LET steps == {k \in 1..BOARD_SIZE :
                    /\ in_board(card_row + k * d[1], card_col + k * d[2])
                    /\ is_some(board, card_row + k * d[1], card_col + k * d[2])
                    /\ predicate(taking_variant, card,
                                 board[<<card_row + k * d[1], card_col + k * d[2]>>])}
    IN  IF steps = {} THEN 0 ELSE CHOOSE k \in steps : \A j \in steps : k <= j

\* The first loop of one direction: the last matching cell of the ray, as its
\* distance from the played cell (0: found = None).
ray_found(board, card_row, card_col, d, taking_variant, card) ==
    LET steps == {k \in 1..BOARD_SIZE :
                    /\ in_board(card_row + k * d[1], card_col + k * d[2])
                    /\ is_some(board, card_row + k * d[1], card_col + k * d[2])
                    /\ predicate(taking_variant, card,
                                 board[<<card_row + k * d[1], card_col + k * d[2]>>])}
    IN  IF steps = {} THEN 0 ELSE CHOOSE k \in steps : \A j \in steps : j <= k

\* The second loop of one direction: the cells pushed, from the played cell to
\* the found one.
ray_cells(card_row, card_col, d, found) ==
    IF found = 0 THEN << >>
    ELSE [i \in 1..(found + 1) |-> <<card_row + (i - 1) * d[1], card_col + (i - 1) * d[2]>>]

RECURSIVE find_taking_from(_, _, _, _, _, _)
find_taking_from(board, card_row, card_col, taking_variant, card, i) ==
    IF i > Len(directions) THEN << >>
    ELSE ray_cells(card_row, card_col, directions[i],
                   ray_found(board, card_row, card_col, directions[i], taking_variant, card))
         \o find_taking_from(board, card_row, card_col, taking_variant, card, i + 1)

\* GameState::find_taking_cards: the positions to take, in push order (a cell
\* is pushed once per matching direction it lies on).
find_taking_cards(board, card_row, card_col, taking_variant, card) ==
    find_taking_from(board, card_row, card_col, taking_variant, card, 1)


\* ------------------------------------------------------- game engine
TakingVariants == {"SameNumber", "SameNumberOrSuitRanked"}

\* PlayerState::has_cards
has_cards(player) == Len(player.hand) > 0 \/ Len(player.deck) > 0

\* The hand and the deck as they would be with the hand cut from the back of
\* the share.
deal_player_from_back(player_name, player_cards) ==
    [name |-> player_name,
     hand |-> Slice(player_cards, Len(player_cards) - Min(HAND_SIZE, Len(player_cards)),
                    Len(player_cards)),
     deck |-> Slice(player_cards, 0, Len(player_cards) - Min(HAND_SIZE, Len(player_cards)))]

\* One iteration of the dealing loops of GameState::new: the player built from
\* its slice of the shuffled deck.
deal_player(player_name, player_cards) ==
    [name |-> player_name,
     hand |-> Slice(player_cards, 0, Min(HAND_SIZE, Len(player_cards))),
     deck |-> Slice(player_cards, Min(HAND_SIZE, Len(player_cards)), Len(player_cards))]

\* The slice as it would be with the deck split among the players alone when
\* sequestering: no share is left over.
player_cards_no_spare_share(deck, num_players, sequester_cards, gets_extra_cards, i) ==
    LET cards_per_player == Len(deck) \div num_players
        extra_card == IF i \in gets_extra_cards THEN 1 ELSE 0
    IN  Slice(deck, i * cards_per_player, (i + 1) * cards_per_player + extra_card)

\* The slice of the shuffled deck GameState::new copies for player i (0-based).
player_cards(deck, num_players, sequester_cards, gets_extra_cards, i) ==
    IF sequester_cards
    THEN LET cards_per_player == Len(deck) \div (num_players + 1)
         IN  Slice(deck, i * cards_per_player, (i + 1) * cards_per_player)
    ELSE LET cards_per_player == Len(deck) \div num_players
             extra_card == IF i \in gets_extra_cards THEN 1 ELSE 0
         IN  Slice(deck, i * cards_per_player, (i + 1) * cards_per_player + extra_card)

\* The outcomes of (0..num_players).choose_multiple(extra_cards); the sequester
\* branch draws nothing.
ExtraChoices(num_players, sequester_cards) ==
    IF sequester_cards THEN {{}}
    ELSE {S \in SUBSET (0..(num_players - 1)) : Cardinality(S) = DECK_SIZE % num_players}

\* GameState::new, given the shuffled deck and the players drawn for an extra card.
GameState_new(player_names, game_options, deck, gets_extra_cards) ==
    [game_options |-> game_options,
     board |-> EmptyBoard,
     players |-> [i \in 1..Len(player_names) |->
                    deal_player(player_names[i],
                                player_cards(deck, Len(player_names),
                                             game_options.sequester_cards,
                                             gets_extra_cards, i - 1))],
     turn |-> 0]

\* The positions of the shuffled deck that GameState::new copies into no
\* player's share: they are dropped with the local deck.
never_dealt(num_players, sequester_cards, deck, gets_extra_cards) ==
    {deck[j] : j \in {j \in 1..Len(deck) :
        \A i \in 0..(num_players - 1) :
            deck[j] \notin SeqToSet(player_cards(deck, num_players, sequester_cards,
                                                 gets_extra_cards, i))}}

\* state_for as it would be with the hand of every player listed next to the
\* card count.
state_for_open_hands(g, player_index) ==
    [board |-> g.board,
     hand |-> g.players[player_index + 1].hand,
     deck |-> g.players[player_index + 1].deck,
     username |-> g.players[player_index + 1].name,
     players |-> [i \in 1..Len(g.players) |->
                    <<g.players[i].name, Len(g.players[i].hand) + Len(g.players[i].deck),
                      g.players[i].hand>>],
     turn |-> g.turn]

\* GameState::state_for, for a player_index in range (0-based): the board, the
\* player's own hand and deck, and of every player the name and the card count.
state_for(g, player_index) ==
    [board |-> g.board,
     hand |-> g.players[player_index + 1].hand,
     deck |-> g.players[player_index + 1].deck,
     username |-> g.players[player_index + 1].name,
     players |-> [i \in 1..Len(g.players) |->
                    <<g.players[i].name, Len(g.players[i].hand) + Len(g.players[i].deck)>>],
     turn |-> g.turn]

\* GameState::get_player_names
get_player_names(g) == [i \in 1..Len(g.players) |-> g.players[i].name]

\* GameState::current_player
current_player(g) == g.players[g.turn + 1]

\* someone_has_won as it would be with < 1 for <= 1: the game goes on for
\* the last player who holds cards.
someone_has_won_none_left(g) ==
    Cardinality({i \in 1..Len(g.players) : has_cards(g.players[i])}) < 1

\* GameState::someone_has_won
someone_has_won(g) ==
    Cardinality({i \in 1..Len(g.players) : has_cards(g.players[i])}) <= 1

\* The taking as it would be with the card of a cell copied at every push of
\* the cell instead of taken out of it.
RECURSIVE take_cards_every_push(_, _, _)
take_cards_every_push(board, cells, i) ==
    IF i > Len(cells) THEN << >>
    ELSE (IF cells[i] \in DOMAIN board THEN <<board[cells[i]]>> ELSE << >>)
         \o take_cards_every_push(board, cells, i + 1)

\* cards_to_take.into_iter().filter_map(|cell| board[cell].take()): the cards
\* of the listed cells in list order, a cell giving its card the first time only.
RECURSIVE take_cards(_, _, _)
take_cards(board, cells, i) ==
    IF i > Len(cells) THEN << >>
    ELSE (IF cells[i] \in DOMAIN board /\ \A j \in 1..(i - 1) : cells[j] # cells[i]
          THEN <<board[cells[i]]>> ELSE << >>)
         \o take_cards(board, cells, i + 1)

\* The refill loop as it would be stopping one card short of a full hand.
draw_count_one_short(hand, deck) ==
    IF Len(hand) < HAND_SIZE - 1 THEN Min(Len(deck), HAND_SIZE - 1 - Len(hand)) ELSE 0

\* The refill loop as it would be with <= for <: it draws one card more.
draw_count_one_more(hand, deck) ==
    IF Len(hand) <= HAND_SIZE THEN Min(Len(deck), HAND_SIZE + 1 - Len(hand)) ELSE 0

\* The refill loop of apply_move: the number of cards drawn.
draw_count(hand, deck) ==
    IF Len(hand) < HAND_SIZE THEN Min(Len(deck), HAND_SIZE - Len(hand)) ELSE 0

\* advance_turn as it would be without the has_cards loop: the turn goes to the
\* next seat whether or not it holds cards.
advance_turn_no_skip(players, turn) == (turn + 1) % Len(players)

\* advance_turn as it would be without the step before the loop: the search
\* for a player with cards starts at the mover.
advance_turn_from_mover(players, turn) ==
    LET n == Len(players)
        steps == {k \in 0..(n - 1) : has_cards(players[((turn + k) % n) + 1])}
    IN  IF steps = {} THEN -1
        ELSE (turn + (CHOOSE k \in steps : \A j \in steps : k <= j)) % n

\* The turn loop of apply_move: the first player after turn, cyclically, that
\* has cards. The loop does not end when no player has cards: -1.
advance_turn(players, turn) ==
    LET n == Len(players)
        steps == {k \in 1..n : has_cards(players[((turn + k) % n) + 1])}
    IN  IF steps = {} THEN -1
        ELSE (turn + (CHOOSE k \in steps : \A j \in steps : k <= j)) % n

\* The checks as they would be with the last card of the hand refused.
move_rejected_last_card(g, player_move) ==
    \/ player_move.card + 1 >= Len(current_player(g).hand)
    \/ ~can_play_at(g.board, player_move.location[1], player_move.location[2])

\* The two checks of apply_move that return false.
move_rejected(g, player_move) ==
    \/ player_move.card >= Len(current_player(g).hand)
    \/ ~can_play_at(g.board, player_move.location[1], player_move.location[2])

\* The element of a one-element set. A name bound over {e} holds the value of
\* e, computed once, where a name defined by LET is computed at each use when
\* the step is evaluated inside ENABLED.
Only(S) == CHOOSE x \in S : TRUE

\* GameState::apply_move past its checks. taken_cards.shuffle leaves the cards
\* in the order taken or, with reversed, in the reverse order. board1: the
\* board with the card played; cards_to_take, taken_cards: the cells pushed
\* and the cards taken out of them; players2: the players once the mover has
\* extended the deck and refilled the hand.
move_applied(g, player_move, reversed) ==
    LET current == current_player(g)
        row == player_move.location[1]
        col == player_move.location[2]
        card == current.hand[player_move.card + 1]
        hand1 == [i \in 1..(Len(current.hand) - 1) |->
                    IF i <= player_move.card THEN current.hand[i] ELSE current.hand[i + 1]]
        refilled(deck1) ==
            LET drawn == draw_count(hand1, deck1)
            IN  [g.players EXCEPT ![g.turn + 1] =
                    [name |-> current.name,
                     hand |-> hand1 \o SubSeq(deck1, 1, drawn),
                     deck |-> SubSeq(deck1, drawn + 1, Len(deck1))]]
    IN  Only({Only({Only({Only({
            [g EXCEPT !.board = [cell \in DOMAIN board1 \ SeqToSet(cards_to_take) |->
                                    board1[cell]],
                      !.players = players2,
                      !.turn = advance_turn(players2, g.turn)] :
            players2 \in
                {refilled(current.deck
                          \o (IF reversed THEN Reverse(taken_cards) ELSE taken_cards))}}) :
            taken_cards \in {take_cards(board1, cards_to_take, 1)}}) :
            cards_to_take \in
                {find_taking_cards(board1, row, col, g.game_options.taking_variant, card)}}) :
            board1 \in {[cell \in DOMAIN g.board \cup {<<row, col>>} |->
                            IF cell = <<row, col>> THEN card ELSE g.board[cell]]}})

\* apply_move as it would be with the shuffle done on the deck of the player
\* the turn goes to instead of the cards taken.
apply_move_shuffles_next(g, player_move, reversed) ==
    IF move_rejected(g, player_move)
    THEN [ok |-> FALSE, g |-> g]
    ELSE LET applied == move_applied(g, player_move, reversed)
         IN  [ok |-> TRUE,
              g |-> [applied EXCEPT !.players[applied.turn + 1].deck = Reverse(@)]]

\* apply_move as it would be with the card taken out of the hand before the
\* location is checked: a move rejected for its location has cost the card.
apply_move_removes_first(g, player_move, reversed) ==
    LET current == current_player(g) IN
    IF player_move.card >= Len(current.hand) THEN [ok |-> FALSE, g |-> g]
    ELSE IF ~can_play_at(g.board, player_move.location[1], player_move.location[2])
    THEN [ok |-> FALSE,
          g |-> [g EXCEPT !.players[g.turn + 1].hand =
                    [i \in 1..(Len(current.hand) - 1) |->
                        IF i <= player_move.card THEN current.hand[i]
                        ELSE current.hand[i + 1]]]]
    ELSE [ok |-> TRUE, g |-> move_applied(g, player_move, reversed)]

\* GameState::apply_move: the value returned and the state left.
apply_move(g, player_move, reversed) ==
    IF move_rejected(g, player_move)
    THEN [ok |-> FALSE, g |-> g]
    ELSE [ok |-> TRUE, g |-> move_applied(g, player_move, reversed)]


\* ------------------------------------------------------------- state
VARIABLES
    game_state,   \* the GameState (NoGame while there is none)
    sequestered,  \* the cards GameState::new dealt to nobody
    last_call,    \* the apply_move call of the step that led here, if any
    moves,        \* accepted moves of the current game
    style,        \* the card the players' default move plays
    args,         \* what main builds the first Lobby from
    state,        \* the ServerState behind the mutex, its GameState apart
    handlers,     \* the handle_websocket task of each connection
    sockets,      \* each connection: its peer, and what was sent to it
    faults,       \* faults of the peers so far
    log           \* the last line the step that led here wrote to stderr

vars == <<game_state, sequestered, last_call, moves, style, args, state, handlers, sockets,
          faults, log>>

NoGame == [board |-> EmptyBoard, players |-> << >>, turn |-> 0]
NoLog == [conn |-> 0, username |-> "", line |-> ""]
\* A line of eprintln! (or of a panic): the username it names, its text, and
\* the connection whose task wrote it.
Log(conn, username, line) == [conn |-> conn, username |-> username, line |-> line]
NoMove == [card |-> 0, location |-> <<0, 0>>]
NoCall == [called |-> FALSE, ok |-> FALSE, turn |-> 0, player_move |-> NoMove]
\* The call apply_move(player_move) made at turn, and what it returned.
Called(ok, turn, player_move) ==
    [called |-> TRUE, ok |-> ok, turn |-> turn, player_move |-> player_move]

\* How one game is played: the hand card the default move plays, and the
\* outcome of every taken_cards.shuffle of the game.
Styles == {[card |-> "first", reversed |-> FALSE], [card |-> "last", reversed |-> TRUE]}
GameOptions == [sequester_cards : BOOLEAN, taking_variant : TakingVariants]

\* ------------------------------------------------- the players' moves
RowMajor(cell) == cell[1] * BOARD_SIZE + cell[2]

Playable(board) == {cell \in Cells : can_play_at(board, cell[1], cell[2])}

\* The default move of the player to move: the first or the last card of the
\* hand, by style, on the first playable cell in row-major order.
DefaultMoves(g, st) ==
    LET playable == Playable(g.board)
        first == CHOOSE n \in {RowMajor(cell) : cell \in playable} :
                    \A cell \in playable : n <= RowMajor(cell)
    IN  IF playable = {} \/ Len(current_player(g).hand) = 0 THEN {}
        ELSE {[card |-> IF st.card = "first" THEN 0 ELSE Len(current_player(g).hand) - 1,
               location |-> <<first \div BOARD_SIZE, first % BOARD_SIZE>>]}

\* Moves apply_move may reject: a card index just past the hand, the centre,
\* a corner, and a cell off the board.
ProbeMoves(g) ==
    {[card |-> c, location |-> l] :
        c \in {0, Len(current_player(g).hand)},
        l \in {<<BOARD_SIZE \div 2, BOARD_SIZE \div 2>>, <<0, BOARD_SIZE - 1>>,
               <<BOARD_SIZE, BOARD_SIZE>>}}

RejectedMoves(g) == {m \in ProbeMoves(g) : move_rejected(g, m)}

PlayerNames == <<"a", "b", "c", "d">>

\* ------------------------------------------ the engine driven directly
\* The engine is driven as the server drives it: a move is made only while
\* nobody has won.
GameInit ==
    \E n \in 2..4 : \E game_options \in GameOptions : \E deck \in DeckShuffles :
    \E gets_extra_cards \in ExtraChoices(n, game_options.sequester_cards) :
    \E st \in Styles :
        /\ game_state = GameState_new(SubSeq(PlayerNames, 1, n), game_options, deck,
                                      gets_extra_cards)
        /\ sequestered = never_dealt(n, game_options.sequester_cards, deck, gets_extra_cards)
        /\ last_call = NoCall
        /\ moves = 0
        /\ style = st
        /\ args = [num_players |-> n, options |-> game_options, join_code |-> "code"]
        /\ state = [tag |-> "Running", connections |-> << >>, join_code |-> "code"]
        /\ handlers = << >>
        /\ sockets = << >>
        /\ faults = 0
        /\ log = NoLog

Play ==
    /\ ~someone_has_won(game_state)
    /\ moves < MaxMoves
    /\ \E player_move \in DefaultMoves(game_state, style) :
        LET r == apply_move(game_state, player_move, style.reversed)
        IN  /\ r.ok
            /\ game_state' = r.g
            /\ last_call' = Called(TRUE, game_state.turn, player_move)
            /\ moves' = moves + 1
    /\ UNCHANGED <<sequestered, style, args, state, handlers, sockets, faults, log>>

PlayRejected ==
    /\ ~someone_has_won(game_state)
    /\ \E player_move \in RejectedMoves(game_state) :
        LET r == apply_move(game_state, player_move, style.reversed)
        IN  /\ ~r.ok
            /\ game_state' = r.g
            /\ last_call' = Called(FALSE, game_state.turn, player_move)
    /\ UNCHANGED <<sequestered, moves, style, args, state, handlers, sockets, faults, log>>

GameNext == Play \/ PlayRejected

GameSpec == GameInit /\ [][GameNext]_vars

\* ------------------------------------------ the captures driven directly
\* apply_move is called once on a board drawn around the cell played on: a ray
\* of up to MaxRay cards from it, one card two cells away on the next ray, and
\* one card next to it on the ray after that. The card played is the seven of
\* the second suit.
MaxRay == 3
CardOf(suit, value) == suit * NUM_VALUES + (value - 1)
PlayedCard == CardOf(1, 7)

\* What a cell of the ray holds: nothing, a seven, a lower or a higher card of
\* the suit played, a card of another suit and another rank.
Kinds(k) == IF k <= 3 THEN {"none", "rank", "low", "high", "other"}
            ELSE {"none", "low", "high", "other"}
ray_card(kind, k) ==
    CASE kind = "rank" -> CardOf(IF k = 1 THEN 0 ELSE k, 7)
      [] kind = "low" -> CardOf(1, ((k - 1) % 5) + 1)
      [] kind = "high" -> CardOf(1, 8 + ((k - 1) % 5))
      [] OTHER -> CardOf(0, ((k - 1) % 6) + 1)
NextRayKinds == {"none", "low", "other"}
next_ray_card(kind) == IF kind = "low" THEN CardOf(1, 6) ELSE CardOf(2, 8)
anchor_card == CardOf(2, 9)

place(location, d, k) == <<location[1] + k * d[1], location[2] + k * d[2]>>
CapturePlaces == {<<BOARD_SIZE \div 2, BOARD_SIZE \div 2>>, <<1, BOARD_SIZE - 2>>}

drawn_board(location, i, pattern, next_kind) ==
    LET ray == directions[i]
        next_ray == directions[(i % Len(directions)) + 1]
        anchor_ray == directions[((i + 1) % Len(directions)) + 1]
        on_ray == {k \in 1..MaxRay : pattern[k] # "none"
                                      /\ in_board(place(location, ray, k)[1],
                                                  place(location, ray, k)[2])}
        next_cells == IF next_kind # "none" /\ in_board(place(location, next_ray, 2)[1],
                                                        place(location, next_ray, 2)[2])
                      THEN {place(location, next_ray, 2)} ELSE {}
        cells == {place(location, ray, k) : k \in on_ray} \cup next_cells
                    \cup {place(location, anchor_ray, 1)}
    IN  [cell \in cells |->
            IF cell = place(location, anchor_ray, 1) THEN anchor_card
            ELSE IF cell \in next_cells THEN next_ray_card(next_kind)
            ELSE LET k == CHOOSE k \in on_ray : place(location, ray, k) = cell
                 IN  ray_card(pattern[k], k)]

CaptureInit ==
    \E location \in CapturePlaces : \E i \in 1..Len(directions) :
    \E pattern \in {p \in [1..MaxRay -> Kinds(1)] : \A k \in 1..MaxRay : p[k] \in Kinds(k)} :
    \E next_kind \in NextRayKinds : \E taking_variant \in TakingVariants :
        /\ game_state =
            [game_options |-> [sequester_cards |-> FALSE, taking_variant |-> taking_variant],
             board |-> drawn_board(location, i, pattern, next_kind),
             players |-> << [name |-> PlayerNames[1],
                             hand |-> <<PlayedCard, CardOf(3, 1), CardOf(3, 2), CardOf(3, 3),
                                        CardOf(3, 4)>>,
                             deck |-> <<CardOf(3, 5), CardOf(3, 6)>>],
                            [name |-> PlayerNames[2],
                             hand |-> <<CardOf(2, 1)>>,
                             deck |-> << >>] >>,
             turn |-> 0]
        /\ sequestered = {}
        /\ last_call = NoCall
        /\ moves = 0
        /\ style \in {st \in Styles : ~st.reversed}
        /\ args = [num_players |-> 2, options |-> game_state.game_options, join_code |-> "code"]
        /\ state = [tag |-> "Running", connections |-> << >>, join_code |-> "code"]
        /\ handlers = << >>
        /\ sockets = << >>
        /\ faults = 0
        /\ log = NoLog

\* The player to move plays the card played on one of the places.
Capture ==
    /\ ~last_call.called
    /\ \E location \in CapturePlaces :
        LET player_move == [card |-> 0, location |-> location]
            r == apply_move(game_state, player_move, style.reversed)
        IN  /\ game_state' = r.g
            /\ last_call' = Called(r.ok, game_state.turn, player_move)
            /\ moves' = IF r.ok THEN moves + 1 ELSE moves
    /\ UNCHANGED <<sequestered, style, args, state, handlers, sockets, faults, log>>

CaptureSpec == CaptureInit /\ [][Capture]_vars

\* ------------------------------------------- the placing driven directly
\* apply_move is called with every location, on and around the board, and with
\* a card index in and just past the hand, in a fresh game of two players whose
\* board holds up to two cards on the centre, a corner and two edges, and in
\* the games its accepted calls lead to, MaxPlaced of them in a row.
MaxPlaced == 2
Coordinates == 0..(BOARD_SIZE + 1)
PlacedCells == {<<BOARD_SIZE \div 2, BOARD_SIZE \div 2>>, <<0, 0>>,
                <<0, BOARD_SIZE \div 2>>, <<BOARD_SIZE - 1, BOARD_SIZE - 1>>}
\* The cards put on the cells: the last cards of the deck of the second player.
placed_card(cell) == DECK_SIZE - 1 - (RowMajor(cell) % 4)

PlaceInit ==
    \E cells \in {c \in SUBSET PlacedCells : Cardinality(c) <= 2} :
        /\ game_state =
            [GameState_new(SubSeq(PlayerNames, 1, 2),
                           [sequester_cards |-> FALSE, taking_variant |-> "SameNumber"],
                           FullDeck, {})
                EXCEPT !.board = [cell \in cells |-> placed_card(cell)],
                       !.players[2].deck = SubSeq(@, 1, Len(@) - 4)]
        /\ sequestered = {}
        /\ last_call = NoCall
        /\ moves = 0
        /\ style \in {st \in Styles : ~st.reversed}
        /\ args = [num_players |-> 2, options |-> game_state.game_options, join_code |-> "code"]
        /\ state = [tag |-> "Running", connections |-> << >>, join_code |-> "code"]
        /\ handlers = << >>
        /\ sockets = << >>
        /\ faults = 0
        /\ log = NoLog

\* The player to move sends a move; the calls stop at the first one rejected.
Place ==
    /\ moves < MaxPlaced
    /\ last_call.called => last_call.ok
    /\ \E row \in Coordinates : \E col \in Coordinates :
       \E card \in {0, Len(current_player(game_state).hand) - 1,
                     Len(current_player(game_state).hand)} :
        LET player_move == [card |-> card, location |-> <<row, col>>]
            r == apply_move(game_state, player_move, style.reversed)
        IN  /\ game_state' = r.g
            /\ last_call' = Called(r.ok, game_state.turn, player_move)
            /\ moves' = IF r.ok THEN moves + 1 ELSE moves
    /\ UNCHANGED <<sequestered, style, args, state, handlers, sockets, faults, log>>

PlaceSpec == PlaceInit /\ [][Place]_vars


\* ------------------------------------------------------- the server
Conns == 1..MaxConns
Usernames == <<"a", "b", "c">>
\* The capacities (args.num_players) and options the server is started with.
Capacities == {2}
ServerOptions == {[sequester_cards |-> FALSE, taking_variant |-> "SameNumber"]}
ServerDecks == {FullDeck}
ServerStyles == {[card |-> "first", reversed |-> FALSE]}

NoClose == [code |-> 0, reason |-> ""]
protocol_error == [code |-> 4002, reason |-> "protocol error"]
end_of_game(winner) == [code |-> 4000, reason |-> winner]

\* guard: where the task is with the mutex of the ServerState: "none" (it
\* holds no state_guard and asks for none), "waiting" (in state.lock().await),
\* "held" (it holds the state_guard). got: what recv.next() of the gameplay
\* loop has given the task that is on its way to the mutex or under it
\* ("move": the text of a move of the player to move; "end": no text frame),
\* where the two are told apart before the lock is taken; "nothing" otherwise.
NewHandler == [pc |-> "new", username |-> "", guard |-> "none", got |-> "nothing"]
\* A task that has ended: its locals are gone.
Returned(pc) == [pc |-> pc, username |-> "", guard |-> "none", got |-> "nothing"]
\* The task as it would be with the guard kept over recv.next(): no drop
\* before the loop and none at the end of a round.
InLoop_guard_kept(username) ==
    [pc |-> "active", username |-> username, guard |-> "held", got |-> "nothing"]
\* A task in recv.next() of its gameplay loop.
InLoop(username) ==
    [pc |-> "active", username |-> username, guard |-> "none", got |-> "nothing"]
\* No state frame.
NoFrame == [board |-> EmptyBoard, hand |-> << >>, deck |-> << >>, username |-> "",
            players |-> << >>, turn |-> 0]
\* A connection: whether its peer is there, the login response and the close
\* it has been sent, and the state frame last written to its sink; the frame is
\* kept for as long as the server holds the sink in the registry.
NewSocket == [alive |-> TRUE, response |-> "", frame |-> NoFrame, close |-> NoClose]

Remove(map, key) == [k \in DOMAIN map \ {key} |-> map[k]]
Insert(map, key, value) == [k \in DOMAIN map \cup {key} |-> IF k = key THEN value ELSE map[k]]
Range(map) == {map[k] : k \in DOMAIN map}
Orders(S) == {order \in [1..Cardinality(S) -> S] :
                \A i, j \in 1..Cardinality(S) : i # j => order[i] # order[j]}

\* A live-check that takes the presence of the entry for an answer.
send_ok_always(socks, conn) == TRUE

\* sink.send(..).await.is_ok(): a send succeeds while the peer is there.
send_ok(socks, conn) == socks[conn].alive

\* The sink of a connection is dropped: removed from the registry, or replaced
\* in it by the sink of a newer connection.
drop_sink(socks, conn) == [socks EXCEPT ![conn].frame = NoFrame]

\* connections.insert(username, send): the sink the entry held, if any, is
\* dropped.
replaced(st, socks, username) ==
    IF username \in DOMAIN st.connections THEN drop_sink(socks, st.connections[username])
    ELSE socks

\* ServerState::lost_connection
lost_connection(st, username) ==
    IF st.tag # "Running" THEN [panic |-> TRUE, state |-> st]
    ELSE [panic |-> FALSE,
          state |-> [st EXCEPT !.connections = Remove(st.connections, username)]]

\* ServerState::server_disconnect: reason goes to the sink registered under
\* username, whatever the send's outcome, and the entry is removed.
server_disconnect(st, socks, username, reason) ==
    IF st.tag # "Running" THEN [panic |-> TRUE, state |-> st, sockets |-> socks]
    ELSE IF username \notin DOMAIN st.connections
    THEN [panic |-> TRUE, state |-> st, sockets |-> socks]
    ELSE [panic |-> FALSE,
          state |-> lost_connection(st, username).state,
          sockets |-> drop_sink([socks EXCEPT ![st.connections[username]].close = reason],
                                st.connections[username])]

\* The loop of the win branch of handle_websocket: server_disconnect for every
\* username of to_disconnect.
RECURSIVE disconnect_all(_, _, _, _)
disconnect_all(st, socks, to_disconnect, reason) ==
    IF to_disconnect = {} THEN [panic |-> FALSE, state |-> st, sockets |-> socks]
    ELSE LET username == CHOOSE u \in to_disconnect : TRUE
             r == server_disconnect(st, socks, username, reason)
         IN  IF r.panic THEN r
             ELSE disconnect_all(r.state, r.sockets, to_disconnect \ {username}, reason)

\* player_names.iter().position(..) of a name of the roster (0-based).
position(g, username) ==
    CHOOSE i \in 0..(Len(g.players) - 1) :
        /\ g.players[i + 1].name = username
        /\ \A j \in 0..(i - 1) : g.players[j + 1].name # username

\* The login of the Running branch as it would be with a username that is not
\* in the roster given the first seat.
player_index_or_first(g, username) ==
    IF \E i \in 1..Len(g.players) : g.players[i].name = username
    THEN position(g, username)
    ELSE 0

\* player_names.iter().position(..) of the Running branch of the login: the
\* index of the username in the roster, -1 for None.
player_index(g, username) ==
    IF \E i \in 1..Len(g.players) : g.players[i].name = username
    THEN position(g, username)
    ELSE -1

\* broadcast_state as it would be if it sent nothing.
broadcast_state_unsent(st, socks, g) ==
    [panic |-> st.tag # "Running", state |-> st, sockets |-> socks]

\* broadcast_state as it would be if it gave up at a send that fails: the
\* connections that fail are removed and nothing is sent to the others.
broadcast_state_abort(st, socks, g) ==
    IF st.tag # "Running" THEN [panic |-> TRUE, state |-> st, sockets |-> socks]
    ELSE LET disconnected_players ==
                {username \in DOMAIN st.connections : ~send_ok(socks, st.connections[username])}
             sent == DOMAIN st.connections \ disconnected_players
         IN  [panic |-> FALSE,
              state |-> [st EXCEPT !.connections = [k \in sent |-> st.connections[k]]],
              sockets |-> [c \in DOMAIN socks |->
                            IF disconnected_players = {} /\ \E username \in sent : st.connections[username] = c
                            THEN [socks[c] EXCEPT !.frame =
                                    state_for(g, position(g,
                                        CHOOSE username \in sent : st.connections[username] = c))]
                            ELSE IF \E username \in disconnected_players :
                                        st.connections[username] = c
                            THEN drop_sink(socks, c)[c]
                            ELSE socks[c]]]

\* ServerState::broadcast_state: every registered connection is sent its
\* player's state; the connections whose send failed are removed.
broadcast_state(st, socks, g) ==
    IF st.tag # "Running" THEN [panic |-> TRUE, state |-> st, sockets |-> socks]
    ELSE IF \E username \in DOMAIN st.connections :
                \A i \in 1..Len(g.players) : g.players[i].name # username
    THEN [panic |-> TRUE, state |-> st, sockets |-> socks]
    ELSE LET disconnected_players ==
                {username \in DOMAIN st.connections : ~send_ok(socks, st.connections[username])}
             sent == DOMAIN st.connections \ disconnected_players
         IN  [panic |-> FALSE,
              state |-> [st EXCEPT !.connections = [k \in sent |-> st.connections[k]]],
              sockets |-> [c \in DOMAIN socks |->
                            IF \E username \in sent : st.connections[username] = c
                            THEN [socks[c] EXCEPT !.frame =
                                    state_for(g, position(g,
                                        CHOOSE username \in sent : st.connections[username] = c))]
                            ELSE IF \E username \in disconnected_players :
                                        st.connections[username] = c
                            THEN drop_sink(socks, c)[c]
                            ELSE socks[c]]]

\* reset as it would be with the capacity taken from the players still
\* holding cards instead of the roster.
reset_to_holders(st, g, num_players) ==
    [tag |-> "Lobby",
     options |-> g.game_options,
     num_players |-> Cardinality({i \in 1..Len(g.players) : has_cards(g.players[i])}),
     join_code |-> st.join_code,
     connections |-> << >>]

\* ServerState::reset
reset(st, g, num_players) ==
    [tag |-> "Lobby",
     options |-> g.game_options,
     num_players |-> num_players,
     join_code |-> st.join_code,
     connections |-> << >>]

\* start as it would be with the connections taken out of the Lobby and not
\* put into the Running state.
start_running_empty(st) ==
    [tag |-> "Running", connections |-> << >>, join_code |-> st.join_code]

\* ServerState::start up to its broadcast: the Running state that replaces the Lobby.
start_running(st) ==
    [tag |-> "Running", connections |-> st.connections, join_code |-> st.join_code]

Init ==
    /\ \E n \in Capacities : \E game_options \in ServerOptions :
        args = [num_players |-> n, options |-> game_options, join_code |-> "code"]
    /\ state = [tag |-> "Lobby", options |-> args.options, num_players |-> args.num_players,
                connections |-> << >>, join_code |-> args.join_code]
    /\ game_state = NoGame
    /\ sequestered = {}
    /\ last_call = NoCall
    /\ moves = 0
    /\ style \in ServerStyles
    /\ handlers = [h \in Conns |-> NewHandler]
    /\ sockets = [h \in Conns |-> NewSocket]
    /\ faults = 0
    /\ log = NoLog

\* Connections are accepted in the order of their numbers, and a peer names
\* itself with a username already sent, the first one not yet sent or, while a
\* game runs, the first one outside its roster: the connections and the
\* usernames are interchangeable.
SentNames == {handlers[h].username : h \in {c \in Conns : handlers[c].pc = "active"}}
Strangers ==
    IF state.tag = "Running"
    THEN {Usernames[i] : i \in {i \in 1..Len(Usernames) :
            /\ player_index(game_state, Usernames[i]) = -1
            /\ \A j \in 1..(i - 1) : player_index(game_state, Usernames[j]) # -1}}
    ELSE {}
LoginNames ==
    SentNames \cup Strangers \cup
    {Usernames[i] : i \in {i \in 1..Len(Usernames) :
        Usernames[i] \notin SentNames /\ \A j \in 1..(i - 1) : Usernames[j] \in SentNames}}
JoinCodes == {args.join_code, "wrong"}
NextConn(h) == handlers[h].pc = "new" /\ \A c \in Conns : c < h => handlers[c].pc # "new"

\* recv.next() of the handshake gives no text frame of two fields (no frame, an
\* error, another kind of frame, another number of fields): protocol_error is
\* sent and the task ends.
BadHandshake(h) ==
    /\ NextConn(h)
    /\ handlers' = [handlers EXCEPT ![h] = Returned("closed")]
    /\ sockets' = [sockets EXCEPT ![h].close = protocol_error]
    /\ last_call' = NoCall
    /\ log' = NoLog
    /\ UNCHANGED <<game_state, sequestered, moves, style, args, state, faults>>

\* The peer of a connection past its login goes away: sends to it fail from
\* now on and its recv ends.
PeerDies(h) ==
    /\ sockets[h].alive
    /\ handlers[h].pc = "active" \/ h \in Range(state.connections)
    /\ faults < MaxFaults
    /\ faults' = faults + 1
    /\ sockets' = [sockets EXCEPT ![h].alive = FALSE]
    /\ last_call' = NoCall
    /\ log' = NoLog
    /\ UNCHANGED <<game_state, sequestered, moves, style, args, state, handlers>>

existing_connection == "rejected - there is an existing connection for that username"

\* A rejection that comes after the insert: the connection is in the registry
\* when the task returns.
Reject_registered(h, username, response, line) ==
    /\ handlers' = [handlers EXCEPT ![h] = Returned("closed")]
    /\ sockets' = [sockets EXCEPT ![h].response = response]
    /\ log' = Log(h, username, line)
    /\ state' = [state EXCEPT !.connections = Insert(@, username, h)]
    /\ UNCHANGED <<game_state, sequestered, moves>>

\* A branch of the login flow that drops the lock, answers and returns.
Reject(h, username, response, line) ==
    /\ handlers' = [handlers EXCEPT ![h] = Returned("closed")]
    /\ sockets' = [sockets EXCEPT ![h].response = response]
    /\ log' = Log(h, username, line)
    /\ UNCHANGED <<game_state, sequestered, moves, state>>

\* The "ok" cannot be sent: the task returns.
OkFails(h, username, line) ==
    /\ handlers' = [handlers EXCEPT ![h] = Returned("closed")]
    /\ sockets' = [sockets EXCEPT ![h].alive = FALSE]
    /\ log' = Log(h, username, line)
    /\ UNCHANGED <<game_state, sequestered, moves, state>>

\* The "ok" of the Running branch was sent and the peer went before the state
\* that follows it could be: the task returns.
SnapshotFails(h, username, line) ==
    /\ handlers' = [handlers EXCEPT ![h] = Returned("closed")]
    /\ sockets' = [sockets EXCEPT ![h] = [@ EXCEPT !.response = "ok", !.alive = FALSE]]
    /\ log' = Log(h, username, line)
    /\ UNCHANGED <<game_state, sequestered, moves, state>>

\* The test after the insert as it would be with > for ==: the game is not
\* started when the last player has joined.
lobby_complete_past(st) == Cardinality(DOMAIN st.connections) > st.num_players

\* The test after the insert of the Lobby login: the game is full.
lobby_complete(st) == Cardinality(DOMAIN st.connections) = st.num_players

\* The handshake frame username \n attempt_join_code of connection h and its
\* login flow under the lock, Lobby branch. there: the peer is still there when
\* the server answers.
LobbyLogin(h, username, attempt_join_code, there) ==
    /\ NextConn(h)
    /\ state.tag = "Lobby"
    /\ last_call' = NoCall
    /\ UNCHANGED <<style, args, faults>>
    /\ IF state.join_code # attempt_join_code 
       THEN Reject(h, username, "join code", "rejected - bad join code")
       ELSE IF Cardinality(DOMAIN state.connections) >= state.num_players
       THEN Reject(h, username, "game full", "rejected - game full")
       ELSE IF username \in DOMAIN state.connections
               /\ send_ok(sockets, state.connections[username])
       THEN Reject(h, username, "username taken", existing_connection)
       ELSE IF ~there THEN OkFails(h, username, "trying to join new game")
       ELSE LET joined == [state EXCEPT !.connections = Insert(@, username, h)]
                kept == replaced(state, sockets, username)
            IN
            /\ handlers' = [handlers EXCEPT ![h] = InLoop(username)]
            /\ IF lobby_complete(joined)
               THEN \E player_names \in Orders(DOMAIN joined.connections) :
                    \E deck \in ServerDecks :
                    \E gets_extra_cards \in ExtraChoices(Len(player_names),
                                                         joined.options.sequester_cards) :
                        LET g == GameState_new(player_names, joined.options, deck,
                                               gets_extra_cards)
                            started == broadcast_state(start_running(joined),
                                            [kept EXCEPT ![h].response = "ok"], g)
                        IN  /\ game_state' = g
                            /\ sequestered' = never_dealt(Len(player_names),
                                                          joined.options.sequester_cards,
                                                          deck, gets_extra_cards)
                            /\ moves' = 0
                            /\ state' = started.state
                            /\ sockets' = started.sockets
                            /\ log' = Log(h, username, "game starting")
               ELSE /\ state' = joined
                    /\ sockets' = [kept EXCEPT ![h].response = "ok"]
                    /\ log' = Log(h, username, "trying to join new game")
                    /\ UNCHANGED <<game_state, sequestered, moves>>

\* The reconnect as it would be with the connection registered after the "ok"
\* alone.
snapshot_skipped(socks, h, g, username) ==
    [socks EXCEPT ![h].response = "ok"]

\* The two sends of a reconnect that succeeds: "ok", then the state of the
\* player.
snapshot_sent(socks, h, g, username) ==
    [socks EXCEPT ![h] = [@ EXCEPT !.response = "ok",
                                   !.frame = state_for(g, player_index(g, username))]]

\* The handshake frame of connection h and its login flow under the lock,
\* Running branch.
RunningLogin(h, username, attempt_join_code, there) ==
    /\ NextConn(h)
    /\ state.tag = "Running"
    /\ last_call' = NoCall
    /\ UNCHANGED <<style, args, faults>>
    /\ IF state.join_code # attempt_join_code 
       THEN Reject(h, username, "join code", "rejected - bad join code")
       ELSE IF player_index(game_state, username) = -1
       THEN Reject(h, username, "full", "rejected - game full")
       ELSE IF username \in DOMAIN state.connections
               /\ send_ok(sockets, state.connections[username])
       THEN Reject(h, username, "username", existing_connection)
       ELSE IF ~there THEN OkFails(h, username, "trying to join existing game")
       ELSE \/ SnapshotFails(h, username, "trying to join existing game")
            \/ /\ handlers' = [handlers EXCEPT ![h] =
                                InLoop(username)]
               /\ sockets' = snapshot_sent(replaced(state, sockets, username), h,
                                            game_state, username)
               /\ state' = [state EXCEPT !.connections = Insert(@, username, h)]
               /\ log' = Log(h, username, "trying to join existing game")
               /\ UNCHANGED <<game_state, sequestered, moves>>

\* What a handler does with the result of a server_disconnect it awaited before
\* returning: a panic ends the task with the state as it was.
Evict(h, r, line) ==
    /\ handlers' = [handlers EXCEPT ![h] = Returned(IF r.panic THEN "panicked" ELSE "closed")]
    /\ state' = r.state
    /\ sockets' = r.sockets
    /\ log' = Log(h, handlers[h].username, IF r.panic THEN "panicked" ELSE line)

\* The gameplay loop: recv.next() gives no text frame (no frame, an error,
\* another kind of frame). A peer that is gone, or that has been sent a close,
\* gives nothing else.
BadFrame(h) ==
    /\ handlers[h].pc = "active"
    /\ IF sockets[h].alive /\ sockets[h].close = NoClose
       THEN faults < MaxFaults /\ faults' = faults + 1
       ELSE UNCHANGED faults
    /\ Evict(h, server_disconnect(state, sockets, handlers[h].username, protocol_error),
             "for sending a bad message")
    /\ last_call' = NoCall
    /\ UNCHANGED <<game_state, sequestered, moves, style, args>>

\* The text frames of the gameplay loop. decodes: the text is a PlayerMove.
ServerProbe == [card |-> HAND_SIZE, location |-> <<BOARD_SIZE \div 2, BOARD_SIZE \div 2>>]
InTurn(h) ==
    /\ state.tag = "Running"
    /\ current_player(game_state).name = handlers[h].username
\* The frame that keeps the connection: the default move of the player to move.
GoodFrames(h) ==
    IF InTurn(h) /\ moves < MaxMoves
    THEN {[decodes |-> TRUE, player_move |-> m] : m \in DefaultMoves(game_state, style)}
    ELSE {}
\* Frames that get the connection dropped: from the player to move, a text
\* that is no PlayerMove and a move apply_move rejects; from another player, the
\* move that would be accepted from the player to move; in Lobby, any text.
FaultFrames(h) ==
    IF state.tag = "Lobby" THEN {[decodes |-> TRUE, player_move |-> ServerProbe]}
    ELSE IF InTurn(h)
    THEN {[decodes |-> d, player_move |-> ServerProbe] : d \in BOOLEAN}
    ELSE {[decodes |-> TRUE, player_move |-> m] : m \in DefaultMoves(game_state, style)}

\* The turn check of the gameplay loop.
out_of_turn_never(g, username) == FALSE
out_of_turn(g, username) == username # current_player(g).name

\* The gameplay loop: a text frame, under the lock.
HandleText(h, frame) ==
    LET username == handlers[h].username
        evicted == server_disconnect(state, sockets, username, protocol_error)
    IN
    /\ UNCHANGED <<style, args>>
    /\ IF state.tag # "Running"
       THEN /\ handlers' = [handlers EXCEPT ![h] = Returned("panicked")]
            /\ last_call' = NoCall
            /\ log' = Log(h, username, "unreachable")
            /\ UNCHANGED <<game_state, sequestered, moves, state, sockets>>
       ELSE IF out_of_turn(game_state, username)
       THEN /\ Evict(h, evicted, "for playing a move out of turn")
            /\ last_call' = NoCall
            /\ UNCHANGED <<game_state, sequestered, moves>>
       ELSE IF ~frame.decodes
       THEN /\ Evict(h, evicted, "unable to parse move")
            /\ last_call' = NoCall
            /\ UNCHANGED <<game_state, sequestered, moves>>
       ELSE \E r \in {apply_move(game_state, frame.player_move, style.reversed)} :
            IF ~r.ok
            THEN /\ Evict(h, evicted, "for playing a bad move")
                 /\ last_call' = Called(FALSE, game_state.turn, frame.player_move)
                 /\ UNCHANGED <<game_state, sequestered, moves>>
            ELSE /\ last_call' = Called(TRUE, game_state.turn, frame.player_move)
                 /\ IF someone_has_won(r.g)
                    THEN LET closed == disconnect_all(state, sockets, DOMAIN state.connections,
                                                      end_of_game(username))
                         IN  /\ handlers' = [handlers EXCEPT ![h] = Returned("closed")]
                             /\ sockets' = closed.sockets
                             /\ state' = reset(closed.state, r.g, Len(r.g.players))
                             /\ game_state' = NoGame
                             /\ sequestered' = {}
                             /\ moves' = 0
                             /\ log' = Log(h, username, "has won")
                    ELSE LET sent == broadcast_state(state, sockets, r.g) IN
                         /\ handlers' = [handlers EXCEPT ![h] = InLoop(username)]
                         /\ log' = Log(h, username, "broadcasting state")
                         /\ game_state' = r.g
                         /\ moves' = moves + 1
                         /\ state' = sent.state
                         /\ sockets' = sent.sockets
                         /\ UNCHANGED sequestered

\* A move of the player to move arrives and is handled.
HandleMove(h) ==
    /\ handlers[h].pc = "active"
    /\ sockets[h].alive
    /\ sockets[h].close = NoClose
    /\ \E frame \in GoodFrames(h) : HandleText(h, frame)
    /\ UNCHANGED faults

\* A text frame that gets its connection dropped arrives and is handled.
HandleFault(h) ==
    /\ handlers[h].pc = "active"
    /\ sockets[h].alive
    /\ faults < MaxFaults
    /\ faults' = faults + 1
    /\ \E frame \in FaultFrames(h) : HandleText(h, frame)

\* A handshake frame arrives on the next connection while the server is in Lobby.
LoginLobby(h) ==
    \E username \in LoginNames : \E attempt_join_code \in JoinCodes : \E there \in BOOLEAN :
        LobbyLogin(h, username, attempt_join_code, there)

\* A handshake frame arrives on the next connection while the server is Running.
LoginRunning(h) ==
    \E username \in LoginNames : \E attempt_join_code \in JoinCodes : \E there \in BOOLEAN :
        RunningLogin(h, username, attempt_join_code, there)

Next ==
    \E h \in Conns :
        \/ BadHandshake(h)
        \/ PeerDies(h)
        \/ LoginLobby(h)
        \/ LoginRunning(h)
        \/ BadFrame(h)
        \/ HandleMove(h)
        \/ HandleFault(h)

Spec == Init /\ [][Next]_vars

\* The peer of h has been sent a close: it answers with its own close or
\* drops the connection, recv.next() of the gameplay loop of h returns
\* something that is no text frame, and the task, woken, runs.
CloseAnswered(h) == sockets[h].close # NoClose /\ BadFrame(h)

\* The server with peers that answer a close and a scheduler that runs the
\* tasks woken.
EndSpec == Spec /\ \A h \in Conns : WF_vars(CloseAnswered(h))

\* ------------------------------------------- the mutex of the ServerState
\* The same tasks, step by step at the mutex: recv.next() gives a frame and the
\* task asks for the lock; the lock is given to it; it does under the lock what
\* the steps above do and gives the lock back. The handshake that is no text of
\* two fields is answered without the lock. A game is followed for
\* MaxLockedMoves moves.
MaxLockedMoves == 2

\* Mutex::lock as it would be if it did not wait for the guard to be dropped.
lock_free_always == TRUE

\* Mutex::lock gives the guard out when no task holds it.
lock_free == \A c \in Conns : handlers[c].guard # "held"

\* A frame that keeps connection h can be handled.
CanMove(h) == moves < MaxLockedMoves /\ GoodFrames(h) # {}
\* The peer of h is there, and what it sends can only be a fault.
NeedsFault(h) ==
    /\ handlers[h].pc = "active"
    /\ sockets[h].alive /\ sockets[h].close = NoClose
    /\ ~CanMove(h)
\* A fault is left to the peer of h: those of the tasks already at the mutex
\* are counted.
FaultLeft(h) ==
    faults + Cardinality({c \in Conns \ {h} : handlers[c].guard # "none" /\ NeedsFault(c)})
        < MaxFaults

\* recv.next() of the task of h returns and the task calls state.lock().
LockAsked(h) ==
    /\ handlers[h].guard = "none"
    /\ \/ NextConn(h)
       \/ /\ handlers[h].pc = "active"
          /\ ~sockets[h].alive \/ sockets[h].close # NoClose \/ CanMove(h) \/ FaultLeft(h)
    /\ handlers' = [handlers EXCEPT ![h].guard = "waiting"]
    /\ last_call' = NoCall
    /\ log' = NoLog
    /\ UNCHANGED <<game_state, sequestered, moves, style, args, state, sockets, faults>>

\* state.lock().await of the task of h returns the guard.
LockTaken(h) ==
    /\ handlers[h].guard = "waiting"
    /\ lock_free
    /\ handlers' = [handlers EXCEPT ![h].guard = "held"]
    /\ last_call' = NoCall
    /\ log' = NoLog
    /\ UNCHANGED <<game_state, sequestered, moves, style, args, state, sockets, faults>>

\* The steps of the task of h under the lock, to the drop of the guard.
LockedLoginLobby(h) == handlers[h].guard = "held" /\ LoginLobby(h)
LockedLoginRunning(h) == handlers[h].guard = "held" /\ LoginRunning(h)
LockedBadFrame(h) ==
    /\ handlers[h].guard = "held"
    /\ ~sockets[h].alive \/ sockets[h].close # NoClose \/ FaultLeft(h)
    /\ BadFrame(h)
LockedMove(h) == handlers[h].guard = "held" /\ CanMove(h) /\ HandleMove(h)
LockedFault(h) == handlers[h].guard = "held" /\ FaultLeft(h) /\ HandleFault(h)
\* The steps that take no lock.
UnlockedHandshake(h) == handlers[h].guard = "none" /\ BadHandshake(h)
UnlockedPeerDies(h) == FaultLeft(h) /\ PeerDies(h)

LockNext ==
    \E h \in Conns :
        \/ LockAsked(h)
        \/ LockTaken(h)
        \/ LockedLoginLobby(h)
        \/ LockedLoginRunning(h)
        \/ LockedBadFrame(h)
        \/ LockedMove(h)
        \/ LockedFault(h)
        \/ UnlockedHandshake(h)
        \/ UnlockedPeerDies(h)

LockSpec == Init /\ [][LockNext]_vars

\* ------------------------------------------- the frames kept to the lock
\* The handlers with the frame of the gameplay loop read before the lock is
\* asked for, as the task reads it, and handled under the lock whatever has
\* become of the connection meanwhile. The peers send handshakes and, in their
\* turn, moves the game accepts; they go away, and they answer a close.
\* recv.next() of the gameplay loop of h returns the move of the player to
\* move, or no text frame from a peer that is gone or was sent a close.
FrameRead(h) ==
    /\ handlers[h].pc = "active"
    /\ handlers[h].guard = "none"
    /\ \E got \in {"move", "end"} :
        /\ got = "move" => (sockets[h].alive /\ sockets[h].close = NoClose /\ CanMove(h))
        /\ got = "end" => (~sockets[h].alive \/ sockets[h].close # NoClose)
        /\ handlers' = [handlers EXCEPT ![h].guard = "waiting", ![h].got = got]
    /\ last_call' = NoCall
    /\ log' = NoLog
    /\ UNCHANGED <<game_state, sequestered, moves, style, args, state, sockets, faults>>

\* A task at the handshake asks for the lock.
HandshakeRead(h) == NextConn(h) /\ LockAsked(h)

\* The round of the gameplay loop of h under the lock, for the text frame it
\* read.
MoveHandled(h) ==
    /\ handlers[h].guard = "held"
    /\ handlers[h].got = "move"
    /\ \E frame \in [decodes : {TRUE}, player_move : DefaultMoves(game_state, style)] :
        HandleText(h, frame)
    /\ UNCHANGED faults

\* The else branch of the gameplay loop of h under the lock.
EndHandled(h) ==
    /\ handlers[h].guard = "held"
    /\ handlers[h].got = "end"
    /\ BadFrame(h)

\* The peer of a connection goes away.
PeerLost(h) == handlers[h].guard = "none" /\ PeerDies(h)

\* What a task does once it has asked for the lock.
Runs(h) ==
    \/ LockedLoginLobby(h)
    \/ LockedLoginRunning(h)
    \/ MoveHandled(h)
    \/ EndHandled(h)

ProgressNext ==
    \E h \in Conns :
        \/ HandshakeRead(h)
        \/ FrameRead(h)
        \/ LockTaken(h)
        \/ LockedLoginLobby(h)
        \/ LockedLoginRunning(h)
        \/ MoveHandled(h)
        \/ EndHandled(h)
        \/ UnlockedHandshake(h)
        \/ PeerLost(h)

\* The mutex hands the free lock to a task that waits for it, and the
\* scheduler runs a task that can run: a task that has the lock awaits nothing
\* but its sends before it drops it.
ProgressSpec ==
    /\ Init /\ [][ProgressNext]_vars
    /\ \A h \in Conns : WF_vars(LockTaken(h)) /\ WF_vars(Runs(h))

\* ------------------------------------------------- properties of the engine
RECURSIVE cards_of(_, _)
\* The cards in the hands and decks of the first i players.
cards_of(players, i) ==
    IF i = 0 THEN 0
    ELSE cards_of(players, i - 1) + Len(players[i].hand) + Len(players[i].deck)

\* The cards of a game: on the board, in the hands and in the decks.
cards_in_play(g) == Cardinality(DOMAIN g.board) + cards_of(g.players, Len(g.players))

holders(g) == {i \in 1..Len(g.players) : has_cards(g.players[i])}

\* C1: in every state of a game the cards on the board, in the hands, in the
\* decks and the cards never dealt number 52 together.
C1_Conservation == cards_in_play(game_state) + Cardinality(sequestered) = DECK_SIZE

\* C2: a call of apply_move that returns false leaves the board, every hand,
\* every deck and the turn as they were.
C2_RejectedNoOp ==
    [][(last_call'.called /\ ~last_call'.ok) => game_state' = game_state]_vars

\* A rejected call on a game under way: cards on the board, a full hand.
C2_Witness ==
    /\ last_call.called /\ ~last_call.ok
    /\ ~is_board_empty(game_state.board)
    /\ Len(current_player(game_state).hand) = HAND_SIZE

\* C4: after an accepted apply_move of a game in which two players or more
\* held cards, the turn is a seat of the game and that seat holds cards.
C4_TurnSkip ==
    (last_call.called /\ last_call.ok) =>
        /\ game_state.turn \in 0..(Len(game_state.players) - 1)
        /\ has_cards(current_player(game_state))

\* An accepted move after which the seat next to the mover's holds no card and
\* the turn has gone past it.
C4_Witness ==
    /\ last_call.called /\ last_call.ok
    /\ LET n == Len(game_state.players)
           next == (last_call.turn + 1) % n
       IN  /\ ~has_cards(game_state.players[next + 1])
           /\ game_state.turn # next
           /\ game_state.turn # last_call.turn
    /\ Cardinality(holders(game_state)) >= 2

\* ------------------------------------------------- properties of the server
\* The player whose turn it is, read off the GameState.
to_move(g) == g.players[g.turn + 1].name

\* The lines of the four evictions of the gameplay loop, and of a panic in it.
eviction_lines == {"for sending a bad message", "for playing a move out of turn",
                   "unable to parse move", "for playing a bad move"}
violation_lines == eviction_lines \cup {"panicked", "unreachable"}

\* The outcome of the move the player to move sends.
default_outcome == LET m == CHOOSE m \in DefaultMoves(game_state, style) : TRUE
                   IN  apply_move(game_state, m, style.reversed).g

\* C3: every step is one handler's; a move is applied only for a sender who is
\* the player to move when the lock is held, and a text frame from any other
\* player leaves the GameState as it was and ends its handler.
C3_TurnGating ==
    [][/\ (last_call'.called /\ last_call'.ok) =>
            /\ state.tag = "Running"
            /\ handlers[log'.conn].pc = "active"
            /\ handlers[log'.conn].username = to_move(game_state)
       /\ (state.tag = "Running" /\ game_state' # game_state) =>
            (last_call'.called /\ last_call'.ok)
       /\ \A h \in Conns :
            (/\ log'.conn = h
             /\ state.tag = "Running"
             /\ handlers[h].pc = "active"
             /\ handlers[h].username # to_move(game_state)) =>
                /\ game_state' = game_state
                /\ handlers'[h].pc # "active"]_vars

\* A player who is not to move has sent a move in a game under way, and has
\* been dropped for it.
C3_Witness ==
    /\ log.line = "for playing a move out of turn"
    /\ state.tag = "Running"
    /\ moves > 0
    /\ log.username # to_move(game_state)

\* C5: an accepted move that leaves one player or none with cards ends, in the
\* same step, in the Lobby main built (join code, options, capacity) with an
\* empty registry and no GameState; an accepted move that leaves two players or
\* more with cards ends Running.
C5_WinReset ==
    [][(last_call'.called /\ last_call'.ok) =>
        IF someone_has_won(default_outcome)
        THEN /\ state' = [tag |-> "Lobby", options |-> args.options,
                          num_players |-> args.num_players,
                          connections |-> << >>, join_code |-> args.join_code]
             /\ game_state' = NoGame
        ELSE /\ state'.tag = "Running"
             /\ game_state' = default_outcome
             /\ Cardinality(holders(game_state')) >= 2]_vars

\* The winning move has been applied and the server is in Lobby again.
C5_Witness ==
    /\ log.line = "has won"
    /\ last_call.called /\ last_call.ok
    /\ state.tag = "Lobby"
    /\ game_state = NoGame

\* C6: when an accepted move ends the game, every connection registered then
\* is sent the close 4000 that names the one player who still holds cards.
C6_WinnerAnnounced ==
    [][(last_call'.called /\ last_call'.ok /\ someone_has_won(default_outcome)) =>
        \A username \in DOMAIN state.connections :
        \A i \in holders(default_outcome) :
            sockets'[state.connections[username]].close =
                end_of_game(default_outcome.players[i].name)]_vars

\* C7: a handler that evicts its connection removes no entry and closes no
\* channel but its own connection's.
C7_EvictionExact ==
    [][\A h \in Conns : (log'.conn = h /\ log'.line \in eviction_lines) =>
        /\ \A c \in Conns \ {h} : sockets'[c] = sockets[c]
        /\ \A username \in DOMAIN state.connections :
            state.connections[username] # h =>
                /\ username \in DOMAIN state'.connections
                /\ state'.connections[username] = state.connections[username]]_vars

\* C8: a frame of the gameplay loop that is no move, that comes out of turn or
\* that apply_move rejects gets its connection the close 4002 and out of the
\* registry, ends its handler, and leaves the GameState as it was.
C8_ViolationsFatal ==
    [][\A h \in Conns : (log'.conn = h /\ log'.line \in violation_lines) =>
        /\ sockets'[h].close = protocol_error
        /\ h \notin Range(state'.connections)
        /\ handlers'[h].pc # "active"
        /\ game_state' = game_state]_vars

\* C9: a login that ends without a join (bad handshake, wrong join code, full
\* lobby, username of a live connection, username outside the roster) leaves
\* the phase, the registry and the GameState as they were, and its connection
\* is in the registry neither then nor later.
Rejected(h) == handlers[h].pc = "closed" /\ sockets[h].response # "ok"
C9_RejectionsTouchNothing ==
    [][/\ \A h \in Conns : (handlers[h].pc = "new" /\ handlers'[h].pc = "closed") =>
            /\ state' = state
            /\ game_state' = game_state
       /\ \A h \in Conns : Rejected(h)' => h \notin Range(state'.connections)]_vars

\* A reconnect under the username of a live connection has been answered
\* "username" in a game under way.
C9_Witness ==
    /\ log.line = existing_connection
    /\ state.tag = "Running"
    /\ moves > 0
    /\ sockets[log.conn].response = "username"
    /\ Rejected(log.conn)
    /\ log.username \in DOMAIN state.connections

\* A login with the right join code, by connection h under username.
Joins(h, username) ==
    /\ handlers[h].pc = "new"
    /\ log'.conn = h
    /\ log'.username = username
    /\ log'.line # "rejected - bad join code"
    /\ username \in DOMAIN state.connections

\* A connection whose peer is there and has been sent no close.
live(h) == sockets[h].alive /\ sockets[h].close = NoClose
\* No two live connections are in the gameplay loop under one username.
OneLivePerName ==
    \A h, c \in Conns :
        (/\ h # c
         /\ handlers[h].pc = "active" /\ handlers[c].pc = "active"
         /\ handlers[h].username = handlers[c].username) => ~(live(h) /\ live(c))

\* The holder of username answers the probe: the join is rejected and the
\* holder keeps its entry and its channel.
HolderKept(h, username) ==
    LET holder == state.connections[username] IN
    (Joins(h, username) /\ sockets[holder].alive) =>
        /\ sockets'[h].response = IF state.tag = "Lobby" THEN "username taken" ELSE "username"
        /\ handlers'[h].pc = "closed"
        /\ state' = state
        /\ sockets'[holder] = sockets[holder]
        /\ handlers'[holder] = handlers[holder]

\* The join over a stale entry has succeeded.
Overwritten(h, username) ==
    /\ sockets'[h].response = "ok"
    /\ handlers'[h] = InLoop(username)
    /\ username \in DOMAIN state'.connections
    /\ state'.connections[username] = h

\* C10 as stated: a join under the username of a live holder is rejected and
\* the holder stays; a join under a username whose entry fails the probe
\* succeeds and overwrites it; no two live connections share a username.
C10_AsStated ==
    [][/\ \A h \in Conns : \A username \in DOMAIN state.connections :
            /\ HolderKept(h, username)
            /\ (Joins(h, username) /\ ~sockets[state.connections[username]].alive) =>
                    Overwritten(h, username)
       /\ OneLivePerName']_vars

\* C10, amended: the join over a stale entry succeeds provided the "ok" (and, in
\* Running, the state) can be sent to the joining connection.
C10_UniqueByLiveness ==
    [][/\ \A h \in Conns : \A username \in DOMAIN state.connections :
            /\ HolderKept(h, username)
            /\ (/\ Joins(h, username)
                /\ ~sockets[state.connections[username]].alive
                /\ sockets'[h].alive) => Overwritten(h, username)
       /\ OneLivePerName']_vars

\* A reconnect has overwritten the stale entry of its username in a game under
\* way, the connection that held it still in its gameplay loop.
C10_Witness ==
    /\ log.line = "trying to join existing game"
    /\ state.tag = "Running"
    /\ log.username \in DOMAIN state.connections
    /\ state.connections[log.username] = log.conn
    /\ sockets[log.conn].response = "ok"
    /\ \E c \in Conns \ {log.conn} :
        /\ handlers[c] = InLoop(log.username)
        /\ ~sockets[c].alive

\* ------------------------------------------- properties of the server, II
\* The step is an accepted join: a connection goes from its handshake into
\* the gameplay loop.
Joined(h) == handlers[h].pc = "new" /\ handlers'[h].pc = "active"
\* The registry with the entry of an accepted join in it.
registry_with(h) == Insert(state.connections, log'.username, h)
\* The step is an accepted join that fills the Lobby.
Fills(h) ==
    /\ state.tag = "Lobby"
    /\ Joined(h)
    /\ Cardinality(DOMAIN registry_with(h)) = state.num_players
\* The roster of game g is the usernames of registry in some order.
RosterOf(g, registry) ==
    /\ Len(g.players) = Cardinality(DOMAIN registry)
    /\ {g.players[i].name : i \in 1..Len(g.players)} = DOMAIN registry
\* The state frame of connection conn is what state_for gives for username in g.
Projected(socks, conn, g, username) ==
    socks[conn].frame = state_for(g, position(g, username))
\* The Lobby is left in the steps that fill it and in no other, and such a
\* step builds one GameState, fresh, over the usernames registered.
LeavesLobby ==
    /\ (state.tag = "Lobby" /\ state'.tag = "Running") <=> \E h \in Conns : Fills(h)
    /\ \A h \in Conns : Fills(h) =>
        /\ game_state = NoGame /\ game_state' # NoGame
        /\ RosterOf(game_state', registry_with(h))
        /\ is_board_empty(game_state'.board)
        /\ game_state'.turn = 0

\* C11 as stated: the Lobby is left exactly when an accepted join fills the
\* registry; that step builds one GameState over the usernames registered,
\* carries the registry over unchanged and sends every registered connection
\* its initial state.
C11_AsStated ==
    [][/\ LeavesLobby
       /\ \A h \in Conns : Fills(h) =>
            /\ state'.connections = registry_with(h)
            /\ \A username \in DOMAIN registry_with(h) :
                Projected(sockets', registry_with(h)[username], game_state', username)]_vars

\* C11, amended: the registry is carried over less the connections whose
\* initial send fails, and the initial state reaches every other one.
C11_LobbyToRunning ==
    [][/\ LeavesLobby
       /\ \A h \in Conns : Fills(h) =>
            LET reached == {username \in DOMAIN registry_with(h) :
                                sockets[registry_with(h)[username]].alive}
            IN  /\ state'.connections = [username \in reached |-> registry_with(h)[username]]
                /\ \A username \in reached :
                    Projected(sockets', registry_with(h)[username], game_state', username)]_vars

\* The game has just started: every player is registered and holds its
\* initial state.
C11_Witness ==
    /\ log.line = "game starting"
    /\ state.tag = "Running"
    /\ moves = 0
    /\ Cardinality(DOMAIN state.connections) = args.num_players
    /\ \A username \in DOMAIN state.connections :
        /\ Projected(sockets, state.connections[username], game_state, username)
        /\ Len(sockets[state.connections[username]].frame.hand) = HAND_SIZE

\* The usernames of the roster of g.
roster(g) == {g.players[i].name : i \in 1..Len(g.players)}
\* The step is the login of h, past the check of the join code, under a
\* username outside the roster of the running game.
StrangerLogin(h) ==
    /\ state.tag = "Running"
    /\ handlers[h].pc = "new" /\ handlers'[h].pc # "new"
    /\ log'.conn = h
    /\ log'.line # "rejected - bad join code"
    /\ log'.username \notin roster(game_state)

\* C12: while one GameState lives its list of player usernames and their
\* order never change, and a login during the game with the right join code
\* and a username outside the roster is answered "full" and registers nothing.
C12_FixedRoster ==
    [][/\ (state.tag = "Running" /\ state'.tag = "Running") =>
            get_player_names(game_state') = get_player_names(game_state)
       /\ \A h \in Conns : StrangerLogin(h) =>
            /\ sockets'[h].response = "full"
            /\ handlers'[h].pc = "closed"
            /\ state' = state
            /\ game_state' = game_state]_vars

\* A stranger has just been answered "full" in a game under way in which a
\* player of the roster has no connection.
C12_Witness ==
    /\ state.tag = "Running"
    /\ moves > 0
    /\ log.line = "rejected - game full"
    /\ log.username \notin roster(game_state)
    /\ sockets[log.conn].response = "full"
    /\ log.conn \notin Range(state.connections)
    /\ roster(game_state) \ DOMAIN state.connections # {}

\* The step is the login of h while a game runs.
Reconnects(h) ==
    /\ state.tag = "Running"
    /\ handlers[h].pc = "new" /\ handlers'[h].pc # "new"
\* Connection h is registered under username before and after the step.
StaysRegistered(h, username) ==
    /\ state.tag = "Running" /\ state'.tag = "Running"
    /\ username \in DOMAIN state.connections /\ state.connections[username] = h
    /\ username \in DOMAIN state'.connections /\ state'.connections[username] = h

\* C13: a reconnect applies no move; the state snapshot is sent only after
\* the "ok", the connection is registered only after the snapshot, in the
\* step that sent it, so that the snapshot is the projection of the game as it
\* is when the connection is registered; and from then on, while it stays
\* registered, every step leaves it with the projection of the current game.
C13_ReconnectOrdering ==
    [][\A h \in Conns :
        /\ Reconnects(h) =>
            /\ game_state' = game_state
            /\ sockets'[h].frame # NoFrame => sockets'[h].response = "ok"
            /\ Joined(h) <=> h \in Range(state'.connections)
            /\ Joined(h) =>
                /\ state'.connections[log'.username] = h
                /\ sockets'[h].response = "ok"
                /\ Projected(sockets', h, game_state', log'.username)
        /\ \A username \in Range(Usernames) :
            StaysRegistered(h, username) => Projected(sockets', h, game_state', username)]_vars

\* A player has just reconnected to a game under way and holds the state of
\* the game as it is.
C13_Witness ==
    /\ state.tag = "Running"
    /\ moves > 0
    /\ log.line = "trying to join existing game"
    /\ log.conn \in Conns
    /\ handlers[log.conn].pc = "active"
    /\ state.connections[log.username] = log.conn
    /\ sockets[log.conn].response = "ok"
    /\ ~is_board_empty(sockets[log.conn].frame.board)
    /\ Projected(sockets, log.conn, game_state, log.username)

\* The step has broadcast the game over registry: the connections whose peer
\* is gone are removed from it and hold nothing, each of the others holds the
\* state of its own player and has been sent nothing else, and the players of
\* the connections removed are still those of the game.
BroadcastOver(registry) ==
    LET failed == {username \in DOMAIN registry : ~sockets[registry[username]].alive}
        reached == DOMAIN registry \ failed
    IN  /\ state'.tag = "Running"
        /\ state'.connections = [username \in reached |-> registry[username]]
        /\ \A username \in reached :
            /\ Projected(sockets', registry[username], game_state', username)
            /\ sockets'[registry[username]].close = sockets[registry[username]].close
            /\ sockets'[registry[username]].alive
        /\ \A username \in failed :
            /\ sockets'[registry[username]].frame = NoFrame
            /\ sockets'[registry[username]].close = sockets[registry[username]].close
        /\ DOMAIN registry \subseteq roster(game_state')

\* C14: a broadcast sends every connection registered when it starts the
\* state of its own player; a send that fails removes that connection and
\* no other from the registry, keeps nothing from the others, leaves the game
\* (the one just started, the one the move gave) as it is, and tells the other
\* players nothing.
C14_BroadcastFaultTolerance ==
    [][/\ log'.line = "broadcasting state" =>
            /\ state.tag = "Running"
            /\ BroadcastOver(state.connections)
            /\ game_state' = default_outcome
       /\ \A h \in Conns : Fills(h) => BroadcastOver(registry_with(h))]_vars

\* A move has just been broadcast: a player whose peer was gone has lost its
\* entry while its handler has yet to notice, and another player holds the
\* state after the move.
C14_Witness ==
    /\ log.line = "broadcasting state"
    /\ moves > 0
    /\ \E c \in Conns :
        /\ ~sockets[c].alive
        /\ handlers[c].pc = "active"
        /\ handlers[c].username \notin DOMAIN state.connections
        /\ sockets[c].frame = NoFrame
    /\ \E username \in DOMAIN state.connections :
        /\ sockets[state.connections[username]].alive
        /\ Projected(sockets, state.connections[username], game_state, username)
        /\ ~is_board_empty(sockets[state.connections[username]].frame.board)

\* The step applies a move that does not end the game.
MoveApplied ==
    /\ last_call'.called /\ last_call'.ok
    /\ state'.tag = "Running"
\* Connection c is sent a state frame in the step.
FrameSent(c) == sockets'[c].frame # sockets[c].frame /\ sockets'[c].frame # NoFrame

\* C15: the step that applies a move that does not end the game broadcasts
\* the game after the move to every registered connection; and whenever a
\* connection is sent a state frame, it has had its "ok" and the frame is a
\* projection of the game as it is after the step, the moves applied so far
\* all in it: no frame shows a game older than one already sent.
C15_BroadcastAfterMove ==
    [][/\ MoveApplied =>
            /\ log'.line = "broadcasting state"
            /\ moves' = moves + 1
            /\ game_state' # game_state
            /\ \A username \in DOMAIN state'.connections :
                Projected(sockets', state'.connections[username], game_state', username)
       /\ \A c \in Conns : FrameSent(c) =>
            /\ sockets'[c].response = "ok"
            /\ game_state' # NoGame
            /\ \E username \in roster(game_state') :
                Projected(sockets', c, game_state', username)
       /\ (state.tag = "Running" /\ state'.tag = "Running") => moves' >= moves]_vars

\* Two moves have been applied and broadcast: both players hold the state
\* after the second.
C15_Witness ==
    /\ log.line = "broadcasting state"
    /\ moves >= 2
    /\ Cardinality(DOMAIN state.connections) = Len(game_state.players)
    /\ \A username \in DOMAIN state.connections :
        /\ Projected(sockets, state.connections[username], game_state, username)
        /\ sockets[state.connections[username]].response = "ok"
        /\ sockets[state.connections[username]].frame.turn = game_state.turn

\* The step is a call of server_disconnect by the handler of h for its own
\* username: one of the four evictions of the gameplay loop, or the panic of
\* one.
Evicts(h) == log'.conn = h /\ log'.line \in eviction_lines \cup {"panicked"}

\* C16: an eviction ends with its username out of the registry, and with
\* the other entries, the phase and the GameState as they were.
C16_EvictRemoves ==
    [][\A h \in Conns : Evicts(h) =>
        /\ handlers[h].username \notin DOMAIN state'.connections
        /\ state'.tag = state.tag
        /\ game_state' = game_state
        /\ \A username \in DOMAIN state.connections \ {handlers[h].username} :
            /\ username \in DOMAIN state'.connections
            /\ state'.connections[username] = state.connections[username]]_vars

\* The tasks that hold the lock.
Held == {h \in Conns : handlers[h].guard = "held"}
\* The task of h has the move of the player to move in hand: the gameplay
\* loop handles it whatever it is.
MoveInHand(h) ==
    /\ handlers[h].pc = "active"
    /\ sockets[h].alive /\ sockets[h].close = NoClose
    /\ CanMove(h)
\* A task that holds the lock waits for no frame: its step under the lock,
\* which drops it, can be taken as things are.
HolderGoesOn ==
    \A h \in Held :
        \/ MoveInHand(h)
        \/ ENABLED (\/ LockedLoginLobby(h)
                    \/ LockedLoginRunning(h)
                    \/ LockedBadFrame(h)
                    \/ LockedFault(h))
\* A task that waits for the lock waits for the task that holds it and for
\* nothing else.
WaiterGoesOn ==
    \A h \in Conns : handlers[h].guard = "waiting" => (Held # {} \/ ENABLED LockTaken(h))
\* The step changes the ServerState or its GameState.
Touches == state' # state \/ game_state' # game_state \/ sequestered' # sequestered

\* C17: the ServerState and its GameState change only in a step of the task
\* that holds the lock, which drops it there; one task at most holds the lock;
\* a task that holds it waits for no frame, and a task that asks for it waits
\* for the holder alone: the peers that send nothing keep nobody waiting.
C17_LockDiscipline ==
    /\ [](Cardinality(Held) <= 1 /\ HolderGoesOn /\ WaiterGoesOn)
    /\ [][/\ Touches => \E h \in Held : handlers'[h].guard = "none"
          /\ \A h \in Held : handlers'[h] # handlers[h] => handlers'[h].guard = "none"]_vars

\* A task holds the lock while another waits for it, and the peer of a third
\* connection, registered, has sent nothing since its login.
C17_Witness ==
    \E h, c, silent \in Conns :
        /\ handlers[h].guard = "held"
        /\ handlers[c].guard = "waiting"
        /\ handlers[silent].pc = "active"
        /\ handlers[silent].guard = "none"
        /\ sockets[silent].alive
        /\ silent \in Range(state.connections)

\* ------------------------------------------- properties of the captures
\* The eight rays.
Rays == {d \in {-1, 0, 1} \X {-1, 0, 1} : d # <<0, 0>>}
\* The card the call of the step plays, and the cell it plays it on.
played == current_player(game_state).hand[last_call'.player_move.card + 1]
played_on == last_call'.player_move.location
\* The cell holds a card the card played matches.
matches(cell) ==
    /\ cell \in DOMAIN game_state.board
    /\ predicate(game_state.game_options.taking_variant, played, game_state.board[cell])
\* The distance of the endpoint of ray d: the farthest cell that matches (0:
\* none matches).
endpoint(d) ==
    LET found == {k \in 1..BOARD_SIZE : matches(place(played_on, d, k))}
    IN  IF found = {} THEN 0 ELSE CHOOSE k \in found : \A j \in found : j <= k
\* The cells of the capture lines: on each ray with an endpoint, the cells from
\* the one played on to the endpoint.
captured ==
    UNION {IF endpoint(d) = 0 THEN {}
           ELSE {place(played_on, d, j) : j \in 0..endpoint(d)} : d \in Rays}
\* The step is a call of apply_move that returns true.
Accepted == last_call'.called /\ last_call'.ok

\* C18: an accepted move leaves the board as it was with the card played on
\* its cell, less the cells of the capture lines: on each of the eight rays
\* the line runs from the cell played on to the farthest matching card.
C18_CaptureLine ==
    [][Accepted =>
        game_state'.board =
            [cell \in (DOMAIN game_state.board \cup {played_on}) \ captured |->
                IF cell = played_on THEN played ELSE game_state.board[cell]]]_vars

\* A seven has been played next to a seven with another card and a second
\* seven behind it: all four cards are with the mover, and the card two cells
\* away on the next ray, which matches nothing, is still on the board.
C18_Witness ==
    /\ last_call.called /\ last_call.ok
    /\ last_call.player_move.location \notin DOMAIN game_state.board
    /\ {PlayedCard, ray_card("rank", 1), ray_card("other", 2), ray_card("rank", 3)}
            \subseteq SeqToSet(game_state.players[1].hand \o game_state.players[1].deck)
    /\ \E cell \in DOMAIN game_state.board : game_state.board[cell] = next_ray_card("other")

\* The player that makes the call of the step, before and after it.
mover == game_state.players[game_state.turn + 1]
mover_after == game_state'.players[game_state.turn + 1]
\* The hand of the mover less the card played.
hand_less_played ==
    [i \in 1..(Len(mover.hand) - 1) |->
        IF i <= last_call'.player_move.card THEN mover.hand[i] ELSE mover.hand[i + 1]]
\* No ray has a card the card played matches.
NoMatch == \A d \in Rays : endpoint(d) = 0

\* C19: an accepted move whose card matches nothing on any ray takes nothing
\* off the board and leaves its card there; the hand of the mover loses the
\* card and gets the first card of its deck, if there is one, at its end, so
\* that the deck is one card shorter and the hand as long as before; the other
\* players keep what they had.
C19_NoMatchNoCapture ==
    [][(Accepted /\ NoMatch) =>
        /\ game_state'.board =
            [cell \in DOMAIN game_state.board \cup {played_on} |->
                IF cell = played_on THEN played ELSE game_state.board[cell]]
        /\ IF mover.deck # << >>
           THEN /\ mover_after.hand = Append(hand_less_played, Head(mover.deck))
                /\ mover_after.deck = Tail(mover.deck)
                /\ Len(mover_after.hand) = Len(mover.hand)
                /\ Len(mover_after.deck) = Len(mover.deck) - 1
           ELSE /\ mover_after.hand = hand_less_played
                /\ mover_after.deck = << >>
        /\ \A i \in 1..Len(game_state.players) :
            i # game_state.turn + 1 => game_state'.players[i] = game_state.players[i]]_vars

\* Well into a game, a card has been played that matched nothing: it lies
\* where it was played, and its player, who has taken cards before, has a full
\* hand and cards left in the deck.
C19_Witness ==
    /\ last_call.called /\ last_call.ok
    /\ moves > 2
    /\ last_call.player_move.location \in DOMAIN game_state.board
    /\ Len(game_state.players[last_call.turn + 1].hand) = HAND_SIZE
    /\ Len(game_state.players[last_call.turn + 1].deck) > 0
    /\ Cardinality(DOMAIN game_state.board) < moves

\* The card on cell has the rank of the card played; it has its suit and a
\* lower rank, the ace the lowest.
same_rank(cell) == (game_state.board[cell] % NUM_VALUES) = (played % NUM_VALUES)
suit_ranked(cell) ==
    /\ (game_state.board[cell] \div NUM_VALUES) = (played \div NUM_VALUES)
    /\ (game_state.board[cell] % NUM_VALUES) < (played % NUM_VALUES)
\* The card on cell can end a capture line under the variant of the game.
can_end(cell) ==
    /\ cell \in DOMAIN game_state.board
    /\ IF game_state.game_options.taking_variant = "SameNumber"
       THEN same_rank(cell)
       ELSE same_rank(cell) \/ suit_ranked(cell)
\* The cells the step takes off the board.
removed == (DOMAIN game_state.board \cup {played_on}) \ DOMAIN game_state'.board

\* C20: an accepted move takes off the board every card that can end a capture
\* line (one of the rank played and, under the variant with suits, one of the
\* suit played and of lower rank), and any other card only if it lies on a ray
\* between the cell played on and a card that can end a line.
C20_CapturePredicates ==
    [][Accepted =>
        /\ \A d \in Rays : \A k \in 1..BOARD_SIZE :
            can_end(place(played_on, d, k)) => place(played_on, d, k) \in removed
        /\ \A cell \in removed \ {played_on} :
            \E d \in Rays : \E k \in 1..BOARD_SIZE : \E far \in k..BOARD_SIZE :
                /\ cell = place(played_on, d, k)
                /\ can_end(place(played_on, d, far))
        /\ played_on \in removed <=>
            \E d \in Rays : \E k \in 1..BOARD_SIZE : can_end(place(played_on, d, k))]_vars

\* Under the variant with suits a seven has been played on a ray with a higher
\* card of its suit, a lower one behind it and another higher one behind that:
\* the first two are with the mover, the third is still on the board.
C20_Witness ==
    /\ last_call.called /\ last_call.ok
    /\ game_state.game_options.taking_variant = "SameNumberOrSuitRanked"
    /\ {PlayedCard, ray_card("high", 1), ray_card("low", 2)}
            \subseteq SeqToSet(game_state.players[1].hand \o game_state.players[1].deck)
    /\ \E cell \in DOMAIN game_state.board : game_state.board[cell] = ray_card("high", 3)

\* The card the step takes off cell.
card_taken(cell) == IF cell = played_on THEN played ELSE game_state.board[cell]
\* The cards of the mover in the order the refill draws them: the hand, then
\* the deck.
held_before == hand_less_played \o mover.deck
held_after == mover_after.hand \o mover_after.deck
\* The cards put at the end of the deck of the mover by the step.
pile == SubSeq(held_after, Len(held_before) + 1, Len(held_after))
\* The step is an accepted move that takes cards.
Takes == Accepted /\ removed # {}

\* C21: an accepted move puts behind the cards of the mover, in some order,
\* the card of every cell it takes off the board, the card played among them,
\* each once however many rays the cell lies on; the other players keep what
\* they had.
C21_CapturedOnce ==
    [][Accepted =>
        /\ Len(held_after) = Len(held_before) + Cardinality(removed)
        /\ SubSeq(held_after, 1, Len(held_before)) = held_before
        /\ \A cell \in removed :
            Cardinality({i \in 1..Len(pile) : pile[i] = card_taken(cell)}) =
                Cardinality({other \in removed : card_taken(other) = card_taken(cell)})
        /\ removed # {} => played_on \in removed
        /\ \A i \in 1..Len(game_state.players) :
            i # game_state.turn + 1 => game_state'.players[i] = game_state.players[i]]_vars

\* Under the variant with suits a seven has been played on a cell of two
\* capture lines, one to a seven and one to a lower card of its suit: the
\* mover holds the three cards, the seven played once.
C21_Witness ==
    /\ last_call.called /\ last_call.ok
    /\ last_call.player_move.location \notin DOMAIN game_state.board
    /\ LET held == game_state.players[1].hand \o game_state.players[1].deck
       IN  /\ {ray_card("rank", 1), next_ray_card("low")} \subseteq SeqToSet(held)
           /\ Cardinality({i \in 1..Len(held) : held[i] = PlayedCard}) = 1


\* ------------------------------------------------------------ placement
centre == <<BOARD_SIZE \div 2, BOARD_SIZE \div 2>>
\* The move of the call being made names a card of the hand of the mover.
card_in_hand == last_call'.player_move.card < Len(mover.hand)
on_board(cell) == cell[1] \in 0..(BOARD_SIZE - 1) /\ cell[2] \in 0..(BOARD_SIZE - 1)
Distance(a, b) ==
    LET dr == IF a[1] >= b[1] THEN a[1] - b[1] ELSE b[1] - a[1]
        dc == IF a[2] >= b[2] THEN a[2] - b[2] ELSE b[2] - a[2]
    IN  IF dr >= dc THEN dr ELSE dc
touches(board, cell) == \E other \in DOMAIN board : Distance(cell, other) = 1

\* C22: on an empty board a move with a card of the hand is accepted at the
\* centre cell and nowhere else: not on any other cell of the board, not at
\* any coordinate off the board.
C22_EmptyBoardCentreOnly ==
    [][(last_call'.called /\ card_in_hand /\ game_state.board = EmptyBoard)
        => (last_call'.ok <=> played_on = centre)]_vars

\* A move next to the centre, on the board, was rejected on the empty board.
C22_Witness ==
    /\ last_call.called /\ ~last_call.ok
    /\ game_state.board = EmptyBoard
    /\ last_call.player_move.card < Len(current_player(game_state).hand)
    /\ last_call.player_move.location = <<centre[1], centre[2] + 1>>

\* C23: on a board that holds a card a move with a card of the hand is
\* accepted exactly when its cell is on the board, empty, and one step, along
\* a row, a column or a diagonal, from a cell that holds a card.
C23_NextToACard ==
    [][(last_call'.called /\ card_in_hand /\ game_state.board # EmptyBoard)
        => (last_call'.ok <=> /\ on_board(played_on)
                              /\ played_on \notin DOMAIN game_state.board
                              /\ touches(game_state.board, played_on))]_vars

\* A move on an empty cell of the top row, right of the only card of the
\* board in the corner and two steps from it, was rejected.
C23_Witness ==
    /\ last_call.called /\ ~last_call.ok
    /\ DOMAIN game_state.board = {<<0, 0>>}
    /\ last_call.player_move.card < Len(current_player(game_state).hand)
    /\ last_call.player_move.location = <<0, 2>>

\* C24: apply_move returns true exactly when the card index is below the size
\* of the hand of the player to move and can_play_at holds for the location
\* on the board as it is.
C24_AcceptedIff ==
    [][last_call'.called
        => (last_call'.ok <=>
                /\ card_in_hand
                /\ can_play_at(game_state.board, played_on[1], played_on[2]))]_vars

\* In a fresh game the first player played a card of the opening hand on the
\* centre, and the move that followed, on the corner, was rejected with the
\* centre the only cell taken.
C24_Witness ==
    /\ moves = 1
    /\ last_call.called /\ ~last_call.ok
    /\ last_call.player_move = [card |-> 0, location |-> <<0, 0>>]
    /\ DOMAIN game_state.board = {centre}
    /\ game_state.board[centre] \in SeqToSet(SubSeq(FullDeck, 1, HAND_SIZE))


\* ------------------------------------------------------------- the deal
\* Before the first accepted move the hand and the deck of a player are the
\* share GameState::new dealt them.
share(i) == game_state.players[i].hand \o game_state.players[i].deck
Dealt == moves = 0
dealt_to(card) == {i \in 1..Len(game_state.players) : card \in SeqToSet(share(i))}
distinct(cards) == Cardinality(SeqToSet(cards)) = Len(cards)

\* C25: dealt without sequestering, every card of the deck is in the share of
\* exactly one player, no share holds a card twice, a share has 52 div n or
\* one more card, and 52 mod n players have one more.
C25_PlainDealPartitions ==
    (Dealt /\ ~game_state.game_options.sequester_cards) =>
        LET n == Len(game_state.players) IN
        /\ \A card \in SeqToSet(FullDeck) : Cardinality(dealt_to(card)) = 1
        /\ \A i \in 1..n :
            /\ distinct(share(i))
            /\ Len(share(i)) \in {DECK_SIZE \div n, DECK_SIZE \div n + 1}
        /\ Cardinality({i \in 1..n : Len(share(i)) = DECK_SIZE \div n + 1}) = DECK_SIZE % n


\* The cards on the board, in the hands and in the decks.
in_play ==
    {game_state.board[cell] : cell \in DOMAIN game_state.board}
        \cup UNION {SeqToSet(share(i)) : i \in 1..Len(game_state.players)}

\* C26: dealt with sequestering, every player has 52 div (n + 1) cards, all
\* different and none shared with another player; the other 52 - n * (52 div
\* (n + 1)) cards are dealt to nobody, and at no time of the game is one of
\* them in a hand, in a deck or on the board.
C26_SequesterDeal ==
    game_state.game_options.sequester_cards =>
        LET n == Len(game_state.players)
            cards_per_player == DECK_SIZE \div (n + 1)
        IN  /\ Dealt => /\ \A i \in 1..n : Len(share(i)) = cards_per_player /\ distinct(share(i))
                        /\ \A card \in SeqToSet(FullDeck) : Cardinality(dealt_to(card)) <= 1
            /\ Cardinality(sequestered) = DECK_SIZE - n * cards_per_player
            /\ sequestered \cap in_play = {}

\* A game of three dealt with sequestering has been played to its end, with
\* cards taken on the way.
C26_Witness ==
    /\ game_state.game_options.sequester_cards
    /\ Len(game_state.players) = 3
    /\ someone_has_won(game_state)
    /\ \E i \in 1..3 : Len(share(i)) > DECK_SIZE \div 4


\* The share of player i (1-based) starts at the place of the shuffled deck
\* where GameState::new starts it.
share_start(i) ==
    LET n == Len(game_state.players) IN
    (i - 1) * (DECK_SIZE \div (IF game_state.game_options.sequester_cards THEN n + 1 ELSE n))

\* C27: as constructed, the board holds no card, the turn is 0, the players
\* are in the order of the names supplied, and the hand of a player is the
\* first min(HAND_SIZE, size of the share) cards of the share, a run of the
\* shuffled deck, with the deck of the player the rest of it in order.
C27_InitialState ==
    Dealt =>
        /\ game_state.board = EmptyBoard
        /\ game_state.turn = 0
        /\ get_player_names(game_state) = SubSeq(PlayerNames, 1, args.num_players)
        /\ \E deck \in DeckShuffles : \A i \in 1..Len(game_state.players) :
            /\ share(i) = SubSeq(deck, share_start(i) + 1, share_start(i) + Len(share(i)))
            /\ Len(game_state.players[i].hand) = Min(HAND_SIZE, Len(share(i)))

\* A game of two dealt without sequestering: five cards in each hand and
\* twenty-one in each deck, the deck shuffled.
C27_Witness ==
    /\ Dealt /\ last_call = NoCall
    /\ ~game_state.game_options.sequester_cards
    /\ Len(game_state.players) = 2
    /\ \A i \in 1..2 : Len(game_state.players[i].hand) = 5 /\ Len(game_state.players[i].deck) = 21
    /\ game_state.players[1].hand # SubSeq(FullDeck, 1, HAND_SIZE)


\* A hand holds at most HAND_SIZE cards, and fewer only over an empty deck.
HandBound ==
    \A i \in 1..Len(game_state.players) :
        /\ Len(game_state.players[i].hand) <= HAND_SIZE
        /\ Len(game_state.players[i].hand) < HAND_SIZE => game_state.players[i].deck = << >>
\* The mover holds the cards left in the hand, then the cards of the deck, in
\* the order they had, and the hand ends where it is full or the cards end.
Refilled ==
    /\ SubSeq(held_after, 1, Len(held_before)) = held_before
    /\ Len(mover_after.hand) = Min(HAND_SIZE, Len(held_after))

\* C28: at all times every hand holds at most HAND_SIZE cards and holds fewer
\* only if the deck of its player is empty; after an accepted move the hand of
\* the mover is the cards it kept followed by cards from the front of the
\* deck, in the order of the deck, up to HAND_SIZE cards or the end of the deck.
C28_HandBoundAndRefill == []HandBound /\ [][Accepted => Refilled]_vars

\* The player who moved last had played the deck out: the hand is short of
\* HAND_SIZE and there is no deck to fill it from.
C28_Witness ==
    /\ last_call.called /\ last_call.ok
    /\ Len(game_state.players[last_call.turn + 1].hand) \in 1..(HAND_SIZE - 1)
    /\ game_state.players[last_call.turn + 1].deck = << >>


\* ------------------------------------------------------- the projection
\* What username may see of game g: the board, its own hand and deck, its
\* name, of every player the name and the number of cards held, and the turn.
view(g, username) ==
    LET own == CHOOSE i \in 1..Len(g.players) : g.players[i].name = username IN
    [board |-> g.board,
     hand |-> g.players[own].hand,
     deck |-> g.players[own].deck,
     username |-> username,
     players |-> [i \in 1..Len(g.players) |->
                    <<g.players[i].name, Len(g.players[i].hand) + Len(g.players[i].deck)>>],
     turn |-> g.turn]
\* Game g with other cards held by the players other than username: every
\* card k places up the deck, or every hand put under its deck.
relabelled(g, username, k) ==
    [g EXCEPT !.players = [i \in 1..Len(g.players) |->
        IF g.players[i].name = username THEN g.players[i]
        ELSE [name |-> g.players[i].name,
              hand |-> [j \in 1..Len(g.players[i].hand) |-> (g.players[i].hand[j] + k) % DECK_SIZE],
              deck |-> [j \in 1..Len(g.players[i].deck) |-> (g.players[i].deck[j] + k) % DECK_SIZE]]]]
hands_hidden(g, username) ==
    [g EXCEPT !.players = [i \in 1..Len(g.players) |->
        IF g.players[i].name = username THEN g.players[i]
        ELSE [name |-> g.players[i].name,
              hand |-> << >>,
              deck |-> g.players[i].deck \o g.players[i].hand]]]
other_holdings(g, username) ==
    {relabelled(g, username, 1), relabelled(g, username, NUM_VALUES), hands_hidden(g, username)}

\* C29: a state frame sent to a connection holds the board, the hand and the
\* deck of the username the connection is registered under, that username,
\* the name and the card count of every player and the turn, of the game as it
\* is; and it is the frame the same player would be sent from a game in which
\* the other players hold as many cards but other ones.
C29_ProjectionConfidential ==
    [][\A c \in Conns : FrameSent(c) =>
        \E username \in DOMAIN state'.connections :
            /\ state'.connections[username] = c
            /\ sockets'[c].frame = view(game_state', username)
            /\ \A other \in other_holdings(game_state', username) :
                /\ other # game_state'
                /\ state_for(other, position(other, username)) = sockets'[c].frame]_vars

\* Both players of a game under way hold their state frame, and the frames
\* differ in the hands they show.
C29_Witness ==
    /\ state.tag = "Running"
    /\ moves > 0
    /\ Cardinality(DOMAIN state.connections) = 2
    /\ \A username \in DOMAIN state.connections :
        /\ sockets[state.connections[username]].frame = view(game_state, username)
        /\ sockets[state.connections[username]].frame.hand # << >>
    /\ \E u1, u2 \in DOMAIN state.connections :
        sockets[state.connections[u1]].frame.hand # sockets[state.connections[u2]].frame.hand


\* ---------------------------------------------------- the end of a game
\* The peer of h has been sent the close of the end of a game while the task
\* of h is in its gameplay loop.
GameOverSent(h) == handlers[h].pc = "active" /\ sockets[h].close.code = end_of_game("").code

\* C30: the handler that applies the winning move returns in that step, and
\* every other handler in its gameplay loop whose peer has been sent the close
\* of the end of the game leaves the loop in the end and is closed.
C30_HandlersEnd ==
    /\ [][\A h \in Conns :
            (log'.conn = h /\ log'.line = "has won") => handlers'[h].pc = "closed"]_vars
    /\ \A h \in Conns : GameOverSent(h) ~> (handlers[h].pc = "closed")


\* ------------------------------------------------- the phase assumptions
\* What the gameplay loop writes, or panics with, once it has a text frame
\* and the lock.
text_lines == {"unreachable", "for playing a move out of turn", "unable to parse move",
               "for playing a bad move", "has won", "broadcasting state"}
\* The step is the handler of h, in its gameplay loop, handling a text frame.
TextHandled(h) == handlers[h].pc = "active" /\ log'.conn = h /\ log'.line \in text_lines

\* C31: a handler of the gameplay loop that has a text frame and the lock
\* finds the server Running: unreachable!() is never reached.
C31_LoopFindsRunning ==
    [][\A h \in Conns : TextHandled(h) => state.tag = "Running"]_vars


\* C32: every call of server_disconnect by a handler for its own username
\* finds the server Running and the username in the registry: neither the
\* panic of the let-else nor the one of .expect happens.
C32_EvictionPreconditions ==
    [][\A h \in Conns : Evicts(h) =>
        /\ state.tag = "Running"
        /\ handlers[h].username \in DOMAIN state.connections
        /\ log'.line # "panicked"]_vars


\* C33: broadcast_state and reset are called with the server Running, start
\* with the server in Lobby, and while the server is Running every username of
\* the registry is a player of the game: the lookup of broadcast_state finds
\* every username it is given, and state_for gets no index out of range.
C33_PhaseGuards ==
    [][/\ log'.line = "broadcasting state" =>
            /\ state.tag = "Running"
            /\ DOMAIN state.connections \subseteq roster(game_state')
       /\ log'.line = "has won" => state.tag = "Running"
       /\ \A h \in Conns : Fills(h) =>
            /\ state.tag = "Lobby"
            /\ DOMAIN registry_with(h) \subseteq roster(game_state')
       /\ state'.tag = "Running" =>
            /\ game_state' # NoGame
            /\ DOMAIN state'.connections \subseteq roster(game_state')
            /\ \A c \in Conns : sockets'[c].frame # NoFrame =>
                \E i \in 0..(Len(game_state'.players) - 1) :
                    sockets'[c].frame = state_for(game_state', i)]_vars

\* A move has been broadcast in a game of two to a registry that holds the
\* third connection: a player who came back under a username of the game.
C33_Witness ==
    /\ state.tag = "Running"
    /\ log.line = "broadcasting state"
    /\ moves > 0
    /\ Len(game_state.players) = 2
    /\ \E username \in DOMAIN state.connections :
        /\ state.connections[username] = MaxConns
        /\ Projected(sockets, MaxConns, game_state, username)


\* ------------------------------------------------------------ the registry
\* C34: between the locked sections the registry of a server in Lobby holds
\* fewer entries than the capacity, and the registry of a Running server at
\* most as many as the capacity; no login is ever answered "game full" by a
\* server in Lobby.
C34_RegistryBound ==
    /\ state.tag = "Lobby" => Cardinality(DOMAIN state.connections) < state.num_players
    /\ state.tag = "Running" =>
        /\ Cardinality(DOMAIN state.connections) <= Len(game_state.players)
        /\ Len(game_state.players) = args.num_players
    /\ \A c \in Conns : sockets[c].response # "game full"

\* A game is over and the server back in Lobby: a player has joined the next
\* game, one short of the capacity.
C34_Witness ==
    /\ state.tag = "Lobby"
    /\ Cardinality(DOMAIN state.connections) = state.num_players - 1
    /\ \E c \in Conns : sockets[c].close.code = end_of_game("").code


\* ------------------------------------------------------- the end of play
\* C35: a move is accepted only in a game in which two players or more hold
\* cards, and when someone_has_won is evaluated after it one player at least
\* holds cards.
C35_WinnerExists ==
    [][Accepted => /\ Cardinality(holders(game_state)) >= 2
                   /\ Cardinality(holders(game_state')) >= 1]_vars

\* A game of three has been won: the last accepted move left one player with
\* cards.
C35_Witness ==
    /\ last_call.called /\ last_call.ok
    /\ Len(game_state.players) = 3
    /\ Cardinality(holders(game_state)) = 1


\* The seat k places after the mover's, as the players are after the move.
seat_after(k) ==
    game_state'.players[((game_state.turn + k) % Len(game_state.players)) + 1]

\* C36: after an accepted move some player holds cards, and the turn is the
\* first seat after the mover's, the mover's own the last to be tried, that
\* holds cards: the loop that advances the turn ends within as many steps as
\* there are players.
C36_TurnLoopEnds ==
    [][Accepted =>
        /\ \E i \in 1..Len(game_state'.players) : has_cards(game_state'.players[i])
        /\ \E k \in 1..Len(game_state.players) :
            /\ game_state'.turn = (game_state.turn + k) % Len(game_state.players)
            /\ has_cards(seat_after(k))
            /\ \A j \in 1..(k - 1) : ~has_cards(seat_after(j))]_vars

\* The mover has played the last card held, in a game that goes on between
\* two other players.
C36_Witness ==
    /\ last_call.called /\ last_call.ok
    /\ ~has_cards(game_state.players[last_call.turn + 1])
    /\ ~someone_has_won(game_state)


\* ------------------------------------------------------ the cards kept
\* How many times card is on the board, in the hands and in the decks of g.
times_in(cards, card) == Cardinality({j \in 1..Len(cards) : cards[j] = card})
copies(g, card) ==
    LET seat[i \in 0..Len(g.players)] ==
            IF i = 0 THEN 0
            ELSE seat[i - 1] + times_in(g.players[i].hand, card)
                             + times_in(g.players[i].deck, card)
    IN  Cardinality({cell \in DOMAIN g.board : g.board[cell] = card}) + seat[Len(g.players)]

\* C37: an accepted move leaves every card on the board, in the hands and in
\* the decks as many times as it was there before: no card is added, none is
\* lost, and a card that was in one place is in one place.
C37_CardsPreserved ==
    [][Accepted => \A card \in SeqToSet(FullDeck) :
                        copies(game_state', card) = copies(game_state, card)]_vars

\* A move has taken three cards or more: the card played is off the board,
\* the mover holds it once, and the deck of the mover holds what was taken.
C37_Witness ==
    /\ last_call.called /\ last_call.ok
    /\ last_call.player_move.location \notin DOMAIN game_state.board
    /\ copies(game_state, PlayedCard) = 1
    /\ Len(game_state.players[last_call.turn + 1].deck) >= 4
    /\ \A card \in SeqToSet(FullDeck) : copies(game_state, card) <= 1


\* The cards player i of game g holds.
total(g, i) == Len(g.players[i].hand) + Len(g.players[i].deck)

\* C38: an accepted move leaves the hand and the deck of every player but the
\* mover as they were; the number of cards a player holds changes in no step
\* but an accepted move of that player; and a player who holds no card holds
\* none after any step of the game.
C38_OnlyTheMover ==
    [][\A i \in 1..Len(game_state.players) :
        /\ (Accepted /\ i # game_state.turn + 1) =>
                game_state'.players[i] = game_state.players[i]
        /\ total(game_state', i) # total(game_state, i) =>
                Accepted /\ i = game_state.turn + 1
        /\ total(game_state, i) = 0 => total(game_state', i) = 0]_vars

\* A player of a game of three holds no card, and the two others have played
\* on: the player has been out for a round or more.
C38_Witness ==
    /\ last_call.called /\ last_call.ok
    /\ Len(game_state.players) = 3
    /\ \E i \in 1..3 :
        /\ total(game_state, i) = 0
        /\ last_call.turn + 1 # i
        /\ game_state.turn + 1 # i
        /\ Cardinality(holders(game_state)) = 2


\* ------------------------------------------------------ games apart
\* The handler of h is in its gameplay loop and the registry does not hold
\* its connection: its game is over, or its entry was removed or overwritten.
Outsider(h) == handlers[h].pc = "active" /\ h \notin Range(state.connections)

\* C39: a step of a handler whose connection the registry does not hold (its
\* game is over, its entry was overwritten as stale) leaves the registry and
\* the other connections as they were.
C39_NoCrossInterference ==
    [][\A h \in Conns : (Outsider(h) /\ log'.conn = h) =>
        /\ state'.connections = state.connections
        /\ \A c \in Conns \ {h} : sockets'[c] = sockets[c]]_vars


\* ------------------------------------------------------------- progress
\* The step before has applied the move the task of h read and sent the
\* state of the game, or the close of its end, to the connections registered.
Applied(h) == log.conn = h /\ log.line \in {"broadcasting state", "has won"}

=============================================================================
